---- MODULE Spec2Model ----
(***************************************************************************)
(* State-machine model of the ralph-desktop loop engine                    *)
(* (src-tauri/src/engine/mod.rs, LoopEngine::start) together with the      *)
(* control commands that signal it (src-tauri/src/commands/                *)
(* loop_commands.rs) and the adapters' line parsers                        *)
(* (src-tauri/src/adapters/*.rs).                                          *)
(*                                                                         *)
(* A string is a sequence of tokens; `contains` is contiguous-subsequence  *)
(* search.  A line written by the child is a record: `json` says whether   *)
(* serde_json parses it, `type` / `role` are the JSON members read by the  *)
(* adapters ("" when absent), `text` is the text the adapter's             *)
(* extract_text finds (<<>> when none) or, for a non-JSON line, the line.  *)
(***************************************************************************)
EXTENDS Integers, Sequences, FiniteSets, TLC

VARIABLES
    cfg,              \* the engine's immutable fields (LoopEngine::new)
    pc,               \* position of the driver task inside start()
    iteration,        \* local `iteration` of start()
    pause_requested,  \* Arc<AtomicBool>
    stop_requested,   \* Arc<AtomicBool>
    resume_notify,    \* tokio Notify: TRUE when a permit is stored
    child,            \* "none" | "running" | "exited" | "reaped"
    stdout_done,
    stderr_done,
    completed,
    lines_read,       \* lines the current child has written so far (bounded)
    events,           \* the LoopEvents emitted since the latest IterationStart
                      \* (it included; before the first one, all), in order
    git,              \* git mutations performed for the current iteration, in order
    result,           \* value returned by start(), NoResult while it runs
    parsed,           \* local `parsed`: the latest parsed stdout line of the iteration
    stop_seen,        \* history: position at which stop_requested was read TRUE
    stop_loop_at,     \* history: the paused wait during which stop_loop was called,
                      \* no resume being pending at that moment
    fresh_pause,      \* history: pause_loop was called during the paused wait the
                      \* engine is in, or has just left
    iteration_expired,  \* Instant::now() >= iteration_deadline (inside the
                        \* streaming loop, where alone it is read)
    idle_expired,       \* Instant::now() - last_output_time > idle_timeout (likewise,
                        \* and only while the iteration deadline has not passed:
                        \* after it the sleep branch breaks before reading it)
    early_resume,       \* history: the notification pending was left by a
                        \* resume_loop called while no pause was requested and
                        \* the engine was in no paused wait
    stopped_by_command, \* how many Stopped events stop_loop itself has emitted
                        \* since start() reset the flags (before that, in all):
                        \* "none", "one" or "several"
    generated,        \* commit_iteration_if_needed: the Result of
                      \* generate_commit_message
    message,          \* commit_iteration_if_needed: local `message`, once set
    running_loops,    \* AppState.running_loops: the project's entry, if any
    call_pc,          \* position of each start_loop call, then of the task it spawned
    stop_flag,        \* LoopEngineHandle.stop_flag of the engine each call built
    process_env,      \* OPENCODE_CONFIG_CONTENT in the application's environment
    shell_env,        \* the same variable in the login-shell environment snapshot
    config_file,      \* the first readable OpenCode config file, if any
    cmd_env,          \* what the Command being built holds for the variable
    adapter_call,     \* an adapter function being called, with its arguments
    adapter_result,   \* the value it returned
    stored_status,    \* the project status in the project-state store
    task_pc,          \* position of the driver task around engine.start()
    command,          \* the control commands called: which, and how far each is
    task,             \* start_loop: the task configuration read (cli, auto_init_git)
    dir_is_repo,      \* whether the project directory is a git repository
    skip_git_repo_check,  \* start_loop: project_state.skip_git_repo_check
    local_is_repo,    \* start_loop: local `is_repo`
    start_loop_pc     \* position of start_loop in lines 67-108

\* The state of one engine and of the commands that signal it.
engine == << cfg, pc, iteration, pause_requested, stop_requested, resume_notify,
             child, stdout_done, stderr_done, completed, lines_read, events, git,
             result, parsed, stop_seen, stop_loop_at, fresh_pause, iteration_expired,
             idle_expired, early_resume, stopped_by_command >>

\* The state of the parts modelled on their own, beside the engine.
commit_text == << generated, message >>

registry == << running_loops, call_pc, stop_flag >>

opencode_env == << process_env, shell_env, config_file, cmd_env >>

adapter == << adapter_call, adapter_result >>

store == << stored_status, task_pc, command >>

git_check == << task, dir_is_repo, skip_git_repo_check, local_is_repo, start_loop_pc >>

further == << adapter, store, git_check >>

aside == << commit_text, registry, opencode_env, further >>

vars == << engine, aside >>

\* ------------------------------------------------------------------ bounds

MaxIter == 2
MaxLines == 2

\* ----------------------------------------------------------------- strings

completion_signal == << "<done>COMPLETE</done>" >>

CODEX_GIT_REPO_CHECK_REQUIRED == << "codex_git_repo_check_required" >>

Contains(s, sub) ==
    \E i \in 1..(Len(s) - Len(sub) + 1) : SubSeq(s, i, i + Len(sub) - 1) = sub

\* The raw text of a line: a JSON line carries its members around its text.
RawLine(l) ==
    IF l.json THEN << "{", l.type, l.role >> \o l.text \o << "}" >> ELSE l.text

\* ---------------------------------------------------------------- adapters

\* str::contains on the event type, for the three words the Claude adapter probes.
TypeHasAssistantWord(t) ==
    t \in { "message", "message_delta", "content_block_delta", "assistant" }

ClaudeParse(l) ==
    IF l.json
    THEN LET content0 == l.text
             is_assistant ==
                 IF l.role # "" THEN l.role = "assistant"
                 ELSE TypeHasAssistantWord(l.type)
             content ==
                 IF content0 = << >> /\ l.type \notin { "ping", "progress" }
                 THEN RawLine(l) ELSE content0
         IN  [ content |-> content, line_type |-> "Json", is_assistant |-> is_assistant ]
    ELSE [ content |-> RawLine(l), line_type |-> "Text", is_assistant |-> FALSE ]

CodexParse(l) ==
    [ content |-> RawLine(l), line_type |-> "Text", is_assistant |-> TRUE ]

OpenCodeParse(l) ==
    IF l.json
    THEN IF l.type = "text"
         THEN [ content |-> l.text, line_type |-> "Json", is_assistant |-> TRUE ]
         ELSE LET content == IF l.text = << >> THEN RawLine(l) ELSE l.text
              IN IF l.type = "error"
                 THEN [ content |-> content, line_type |-> "Error", is_assistant |-> FALSE ]
                 ELSE [ content |-> content, line_type |-> "Json", is_assistant |-> FALSE ]
    ELSE [ content |-> RawLine(l), line_type |-> "Text", is_assistant |-> TRUE ]

parse_output_line(cli, l) ==
    CASE cli = "Claude"   -> ClaudeParse(l)
      [] cli = "Codex"    -> CodexParse(l)
      [] cli = "OpenCode" -> OpenCodeParse(l)

\* detect_completion of the three adapters (claude.rs 135, codex.rs 114,
\* opencode.rs 268): the signal occurs in the output.
detect_completion(output, signal) == Contains(output, signal)

\* --------------------------------------------------------------- the child

PlainWork == [ json |-> FALSE, type |-> "", role |-> "", text |-> << "working..." >> ]

PlainDone == [ json |-> FALSE, type |-> "", role |-> "", text |-> completion_signal ]

AssistantDone ==
    [ json |-> TRUE, type |-> "message", role |-> "assistant",
      text |-> << "Hello" >> \o completion_signal ]

ToolDone == [ json |-> TRUE, type |-> "tool_use", role |-> "", text |-> completion_signal ]

TextDone == [ json |-> TRUE, type |-> "text", role |-> "", text |-> completion_signal ]

TrustError ==
    [ json |-> FALSE, type |-> "", role |-> "",
      text |-> << "Error:", "Not inside a trusted directory", "Use", "--",
                  "skip-git-repo-check", "to bypass" >> ]

\* The lines a child may write, per tool.
ChildLines(cli) ==
    CASE cli = "Claude"   -> { PlainDone, AssistantDone, ToolDone, TrustError }
      [] cli = "Codex"    -> { PlainWork, PlainDone, TrustError }
      [] cli = "OpenCode" -> { TrustError, TextDone, ToolDone }

\* ------------------------------------------------------------------ events

NoParsed == [ content |-> << >>, line_type |-> "None", is_assistant |-> FALSE ]

NoResult == [ state |-> "Running", iteration |-> -1 ]

LoopState(s, n) == [ state |-> s, iteration |-> n ]

Idle == [ state |-> "Idle", iteration |-> -1 ]

LoopEvent(t, n, c, e) == [ type |-> t, iteration |-> n, content |-> c, is_stderr |-> e ]

IterationStart(n) == LoopEvent("IterationStart", n, << >>, FALSE)

Output(n, c, e) == LoopEvent("Output", n, c, e)

Paused(n) == LoopEvent("Paused", n, << >>, FALSE)

Resumed(n) == LoopEvent("Resumed", n, << >>, FALSE)

Completed(n) == LoopEvent("Completed", n, << >>, FALSE)

MaxIterationsReached(n) == LoopEvent("MaxIterationsReached", n, << >>, FALSE)

Error(n, reason) == LoopEvent("Error", n, reason, FALSE)

Stopped == LoopEvent("Stopped", -1, << >>, FALSE)

emit_event(e) == events' = Append(events, e)

\* ------------------------------------------------------------------- Init

\* The engine configurations explored: every tool; on the Codex tool,
\* auto-commit off, on in a repository, and on outside one; the two time
\* budgets are unset, or both set on the Codex tool auto-committing in a
\* repository (where a clean tree makes the auto-commit step do nothing).
Configs ==
    { c \in [ cli_type : { "Codex" }, max_iterations : 1..MaxIter,
              auto_commit : BOOLEAN, is_repo : BOOLEAN,
              iteration_timeout : BOOLEAN, idle_timeout : BOOLEAN ] :
        /\ c.auto_commit \/ c.is_repo
        /\ c.iteration_timeout = c.idle_timeout
        /\ c.iteration_timeout => ( c.auto_commit /\ c.is_repo ) }
    \cup
    [ cli_type : { "Claude", "OpenCode" }, max_iterations : 1..MaxIter,
      auto_commit : { FALSE }, is_repo : { TRUE },
      iteration_timeout : { FALSE }, idle_timeout : { FALSE } ]

NotGenerated == [ ok |-> FALSE, text |-> << "(not run)" >> ]

NoMessage == [ set |-> FALSE, text |-> << >> ]

NoCalls == [ i \in { } |-> "none" ]

\* An environment variable that is not set, an Option that is None, and the
\* command not yet built.
Unset == [ set |-> FALSE ]

None == [ some |-> FALSE ]

NoCommand == [ built |-> FALSE, env |-> Unset ]

\* No adapter function called.
NoCall == [ fn |-> "none" ]

AdapterAtRest ==
    /\ adapter_call = NoCall
    /\ adapter_result = NoCall

NoTask == [ cli |-> "none", auto_init_git |-> FALSE ]

NoCommands == [ c \in { } |-> "none" ]

StoreAtRest ==
    /\ stored_status = "Running"
    /\ task_pc = "none"
    /\ command = NoCommands

GitCheckAtRest ==
    /\ task = NoTask
    /\ dir_is_repo = FALSE
    /\ skip_git_repo_check = FALSE
    /\ local_is_repo = FALSE
    /\ start_loop_pc = "none"

FurtherAtRest ==
    /\ AdapterAtRest
    /\ StoreAtRest
    /\ GitCheckAtRest

\* The parts modelled beside the engine, before any of them has acted.
CommitTextAtRest ==
    /\ generated = NotGenerated
    /\ message = NoMessage

RegistryAtRest ==
    /\ running_loops = { }
    /\ call_pc = NoCalls
    /\ stop_flag = NoCalls

OpenCodeEnvAtRest ==
    /\ process_env = Unset
    /\ shell_env = Unset
    /\ config_file = None
    /\ cmd_env = NoCommand

AsideAtRest ==
    /\ CommitTextAtRest
    /\ RegistryAtRest
    /\ OpenCodeEnvAtRest
    /\ FurtherAtRest

\* The state when start_loop has built the engine and registered its handle,
\* and the driver task has not yet run its first statement.
Init ==
    /\ cfg \in Configs
    /\ pc = "start"
    /\ iteration = 0
    /\ pause_requested = FALSE
    /\ stop_requested = FALSE
    /\ resume_notify = FALSE
    /\ child = "none"
    /\ stdout_done = FALSE
    /\ stderr_done = FALSE
    /\ completed = FALSE
    /\ lines_read = 0
    /\ events = << >>
    /\ git = << >>
    /\ result = NoResult
    /\ parsed = NoParsed
    /\ stop_seen = "none"
    /\ stop_loop_at = "none"
    /\ fresh_pause = FALSE
    /\ early_resume = FALSE
    /\ iteration_expired = FALSE
    /\ idle_expired = FALSE
    /\ stopped_by_command = "none"
    /\ AsideAtRest

signals == << pause_requested, stop_requested, resume_notify >>

streams == << stdout_done, stderr_done, completed, parsed >>

history == << stop_seen, stop_loop_at, fresh_pause, early_resume >>

clock == << iteration_expired, idle_expired >>

Waits == { "pre_wait", "post_wait" }

\* The driver task returns `st`, having emitted `e`.
Return(e, st) ==
    /\ emit_event(e)
    /\ result' = st
    /\ pc' = "done"

\* ----------------------------------------------------------- LoopEngine::start

\* Lines 280-284: the first statements of start().
Start ==
    /\ pc = "start"
    /\ iteration' = 0
    /\ stop_requested' = FALSE
    /\ pause_requested' = FALSE
    /\ pc' = "gate"
    /\ stopped_by_command' = "none"
    /\ UNCHANGED << cfg, resume_notify, child, streams, lines_read, events, git, result,
                    history, clock, aside >>

\* The `while` test with an inclusive comparison.
LoopConditionInclusive == iteration <= cfg.max_iterations

\* Line 286: the `while` test.
LoopCondition == iteration < cfg.max_iterations

\* Lines 286-300 and 541-547: the loop test, then the stop and pause checks
\* that open an iteration.
Gate ==
    /\ pc = "gate"
    /\ fresh_pause' = FALSE
    /\ IF ~LoopCondition
       THEN /\ Return(MaxIterationsReached(iteration),
                      LoopState("MaxIterationsReached", iteration))
            /\ UNCHANGED stop_seen
       ELSE IF stop_requested
       THEN /\ Return(Stopped, Idle)
            /\ stop_seen' = "gate"
       ELSE IF pause_requested
       THEN /\ emit_event(Paused(iteration))
            /\ pc' = "pre_wait"
            /\ UNCHANGED << result, stop_seen >>
       ELSE /\ pc' = "spawn"
            /\ UNCHANGED << events, result, stop_seen >>
    /\ UNCHANGED << cfg, iteration, signals, child, streams, lines_read, git,
                    stop_loop_at, clock, stopped_by_command, early_resume, aside >>

\* The resumed branch without the store that clears pause_requested.
WaitNotifiedKeepsPause(at, next) ==
    /\ pc = at
    /\ resume_notify
    /\ resume_notify' = FALSE
    /\ early_resume' = FALSE
    /\ emit_event(Resumed(iteration))
    /\ pc' = next
    /\ UNCHANGED << cfg, iteration, pause_requested, stop_requested, child, streams,
                    lines_read, git, result, stop_seen, stop_loop_at, fresh_pause,
                    clock, stopped_by_command, aside >>

\* The resumed branch counting an iteration.
WaitNotifiedCounts(at, next) ==
    /\ pc = at
    /\ resume_notify
    /\ resume_notify' = FALSE
    /\ early_resume' = FALSE
    /\ pause_requested' = FALSE
    /\ iteration' = iteration + 1
    /\ emit_event(Resumed(iteration'))
    /\ pc' = next
    /\ UNCHANGED << cfg, stop_requested, child, streams, lines_read, git, result,
                    stop_seen, stop_loop_at, fresh_pause, clock, stopped_by_command,
                    aside >>

\* Line 305 (pre-spawn) and line 521 (post-iteration): resume_notify.notified()
\* wins the select; lines 317-321 and 533-537 follow.
WaitNotified(at, next) ==
    /\ pc = at
    /\ resume_notify
    /\ resume_notify' = FALSE
    /\ early_resume' = FALSE
    /\ pause_requested' = FALSE
    /\ emit_event(Resumed(iteration))
    /\ pc' = next
    /\ UNCHANGED << cfg, iteration, stop_requested, child, streams, lines_read, git,
                    result, stop_seen, stop_loop_at, fresh_pause, clock,
                    stopped_by_command, aside >>

\* Lines 306-313 and 522-529: the 100 ms sleep wins the select and the stop
\* flag is read; when it is clear the wait goes round again.
WaitTick(at) ==
    /\ pc = at
    /\ stop_requested
    /\ Return(Stopped, Idle)
    /\ stop_seen' = at
    /\ UNCHANGED << cfg, iteration, signals, child, streams, lines_read, git,
                    stop_loop_at, fresh_pause, clock, stopped_by_command, early_resume,
                    aside >>

PreWaitNotified == WaitNotified("pre_wait", "spawn")

PreWaitTick == WaitTick("pre_wait")

PostWaitNotified == WaitNotified("post_wait", "gate")

PostWaitTick == WaitTick("post_wait")

\* child.kill() whose signal is not delivered and whose handle is not awaited.
KillNotDelivered == child' = child

\* child.kill().await: SIGKILL, then the handle is awaited.
Kill == child' = "reaped"

\* Lines 337-347 and 349-370: the spawn succeeds or fails; on the Claude tool
\* the prompt is then written to the child's stdin, which may fail too.
SpawnOutcomes(cli) ==
    { "ok", "spawn_failed" } \cup ( IF cli = "Claude" THEN { "write_failed" } ELSE { } )

\* Lines 324-382: count the iteration, announce it, spawn the child.
\* The histories `events` and `git` start afresh with the iteration.
Spawn ==
    /\ pc = "spawn"
    /\ iteration' = iteration + 1
    /\ lines_read' = 0
    /\ git' = << >>
    /\ parsed' = NoParsed
    /\ fresh_pause' = FALSE
    /\ \E outcome \in SpawnOutcomes(cfg.cli_type) :
         CASE outcome = "ok" ->
                /\ events' = << IterationStart(iteration') >>
                /\ child' = "running"
                /\ stdout_done' = FALSE
                /\ stderr_done' = FALSE
                /\ completed' = FALSE
                /\ pc' = "stream"
           [] outcome = "spawn_failed" ->
                /\ events' = << IterationStart(iteration'),
                                Error(iteration', << "Failed to spawn CLI" >>) >>
                /\ pc' = "gate"
                /\ UNCHANGED << child, stdout_done, stderr_done, completed >>
           [] outcome = "write_failed" ->
                /\ events' = << IterationStart(iteration'),
                                Error(iteration', << "Failed to write Claude prompt" >>) >>
                /\ Kill
                /\ pc' = "gate"
                /\ UNCHANGED << stdout_done, stderr_done, completed >>
    /\ iteration_expired' = FALSE
    /\ idle_expired' = FALSE
    /\ UNCHANGED << cfg, signals, result, stop_seen, stop_loop_at, stopped_by_command,
                    early_resume, aside >>

\* The completion test without its `is_assistant` conjunct.
CompletionCheckAnyLine(p) ==
    Contains(p.content, completion_signal)

\* Line 416: the completion test applied to a parsed stdout line.
CompletionCheck(p) ==
    p.is_assistant /\ Contains(p.content, completion_signal)

\* The refusal test without its test of the tool.
is_codex_git_repo_check_errorAnyCli(line) ==
    /\ Contains(line, << "Not inside a trusted directory" >>)
    /\ Contains(line, << "skip-git-repo-check" >>)

\* Lines 119-123.
is_codex_git_repo_check_error(line) ==
    /\ cfg.cli_type = "Codex"
    /\ Contains(line, << "Not inside a trusted directory" >>)
    /\ Contains(line, << "skip-git-repo-check" >>)

\* Lines 330, 381, 405 and 446: the two clocks as a round of the streaming loop
\* ends with the driver task at `next`, a line having been read in the round
\* or not.  Outside the loop the clocks are not read, and are not kept.
ClockNext(next, line_read) ==
    IF next \in { "stream", "select" }
    THEN /\ iteration_expired' = iteration_expired
         /\ idle_expired' = ( idle_expired /\ ~line_read )
    ELSE /\ iteration_expired' = FALSE
         /\ idle_expired' = FALSE

\* The streaming loop's stop check leaving the loop with `break` instead of
\* returning, so that the code after the loop still runs.
StreamStopBreaks ==
    /\ pc = "stream"
    /\ stop_requested
    /\ Kill
    /\ emit_event(Stopped)
    /\ pc' = "wait"
    /\ stop_seen' = "stream"
    /\ ClockNext(pc', FALSE)
    /\ UNCHANGED << cfg, iteration, signals, streams, lines_read, git, result,
                    stop_loop_at, fresh_pause, stopped_by_command, early_resume,
                    aside >>

\* Lines 384-392: the stop check that opens every round of the streaming loop.
StreamStop ==
    /\ pc = "stream"
    /\ stop_requested
    /\ Kill
    /\ Return(Stopped, Idle)
    /\ stop_seen' = "stream"
    /\ ClockNext(pc', FALSE)
    /\ UNCHANGED << cfg, iteration, signals, streams, lines_read, git, stop_loop_at,
                    fresh_pause, stopped_by_command, early_resume, aside >>

\* Lines 386 and 394: the stop flag is read clear and the round's select!
\* starts; the flag is not read again before the select has yielded.
StreamSelect ==
    /\ pc = "stream"
    /\ ~stop_requested
    /\ pc' = "select"
    /\ UNCHANGED << cfg, iteration, signals, child, streams, lines_read, events, git,
                    result, history, clock, stopped_by_command, aside >>

\* Leaving a round of the streaming loop: the `while` test of line 384.
StreamNext(out_done, err_done) == IF out_done /\ err_done THEN "wait" ELSE "stream"

\* Lines 396-421: a line read from the child's standard output.
StdoutLine ==
    /\ pc = "select"
    /\ ~stdout_done
    /\ lines_read < MaxLines
    /\ lines_read' = lines_read + 1
    /\ \E l \in ChildLines(cfg.cli_type) :
         /\ parsed' = parse_output_line(cfg.cli_type, l)
         /\ emit_event(Output(iteration, parsed'.content, FALSE))
         /\ IF CompletionCheck(parsed')
            THEN /\ completed' = TRUE
                 /\ Kill
                 /\ pc' = "wait"
            ELSE /\ pc' = "stream"
                 /\ UNCHANGED << completed, child >>
    /\ ClockNext(pc', TRUE)
    /\ UNCHANGED << cfg, iteration, signals, stdout_done, stderr_done, git, result,
                    history, stopped_by_command, aside >>

\* What next_line() yields when it yields no line: Ok(None) or Err(_).
ReadEnds == { "eof", "error" }

\* A read error on standard output ending the whole streaming loop.
StdoutEndLeavesLoop(outcome) ==
    /\ outcome \in ReadEnds
    /\ pc = "select"
    /\ ~stdout_done
    /\ stdout_done' = TRUE
    /\ pc' = IF outcome = "error" THEN "wait" ELSE StreamNext(TRUE, stderr_done)
    /\ ClockNext(pc', FALSE)
    /\ UNCHANGED << cfg, iteration, signals, child, stderr_done, completed, parsed,
                    lines_read, events, git, result, history, stopped_by_command, aside >>

\* Lines 422-423: end of file (Ok(None)), or a read error (Err(_)), on standard
\* output; the two arms are the same statement.
StdoutEnd(outcome) ==
    /\ outcome \in ReadEnds
    /\ pc = "select"
    /\ ~stdout_done
    /\ stdout_done' = TRUE
    /\ pc' = StreamNext(TRUE, stderr_done)
    /\ ClockNext(pc', FALSE)
    /\ UNCHANGED << cfg, iteration, signals, child, stderr_done, completed, parsed,
                    lines_read, events, git, result, history, stopped_by_command, aside >>

StdoutClosed == \E outcome \in ReadEnds : StdoutEnd(outcome)

\* Lines 428-453: the line `l` read from the child's standard error.
ReadStderr(l) ==
    /\ pc = "select"
    /\ ~stderr_done
    /\ lines_read < MaxLines
    /\ lines_read' = lines_read + 1
    /\ IF is_codex_git_repo_check_error(RawLine(l))
       THEN /\ Kill
            /\ Return(Error(iteration, CODEX_GIT_REPO_CHECK_REQUIRED),
                      LoopState("Failed", iteration))
       ELSE /\ emit_event(Output(iteration, RawLine(l), cfg.cli_type # "Codex"))
            /\ pc' = "stream"
            /\ UNCHANGED << child, result >>
    /\ ClockNext(pc', TRUE)
    /\ UNCHANGED << cfg, iteration, signals, streams, git, history, stopped_by_command,
                    aside >>

\* Lines 428-453: a line read from the child's standard error.
StderrLine == \E l \in ChildLines(cfg.cli_type) : ReadStderr(l)

\* Lines 454-455: end of file (Ok(None)), or a read error (Err(_)), on standard
\* error.
StderrEnd(outcome) ==
    /\ outcome \in ReadEnds
    /\ pc = "select"
    /\ ~stderr_done
    /\ stderr_done' = TRUE
    /\ pc' = StreamNext(stdout_done, TRUE)
    /\ ClockNext(pc', FALSE)
    /\ UNCHANGED << cfg, iteration, signals, child, stdout_done, completed, parsed,
                    lines_read, events, git, result, history, stopped_by_command, aside >>

StderrClosed == \E outcome \in ReadEnds : StderrEnd(outcome)

\* Lines 464-488 with None read as a budget of zero, exceeded at once.
TimeoutReasonZeroBudget ==
    IF cfg.iteration_timeout => iteration_expired THEN "Iteration timeout"
    ELSE IF cfg.idle_timeout => idle_expired THEN "Idle timeout"
    ELSE "none"

\* Lines 464-488: the budget the sleep branch finds exceeded, the iteration
\* deadline being tested first; "none" when it finds neither.
TimeoutReason ==
    IF cfg.iteration_timeout /\ iteration_expired THEN "Iteration timeout"
    ELSE IF cfg.idle_timeout /\ idle_expired THEN "Idle timeout"
    ELSE "none"

\* Lines 459-488: the one-second sleep wins the select and no budget is found
\* exceeded; the loop goes round again.
StreamTick ==
    /\ pc = "select"
    /\ TimeoutReason = "none"
    /\ pc' = "stream"
    /\ UNCHANGED << cfg, iteration, signals, child, streams, lines_read, events, git,
                    result, history, clock, stopped_by_command, aside >>

\* The sleep branch returning Failed when it finds a budget exceeded.
StreamTimeoutFails ==
    /\ pc = "select"
    /\ TimeoutReason # "none"
    /\ Kill
    /\ Return(Error(iteration, << TimeoutReason >>), LoopState("Failed", iteration))
    /\ ClockNext(pc', FALSE)
    /\ UNCHANGED << cfg, iteration, signals, streams, lines_read, git, history,
                    stopped_by_command, aside >>

\* The sleep branch's budget test run by the paused wait as well.
StreamTimeoutInWait ==
    /\ pc \in { "select" } \cup Waits
    /\ pc \in Waits \/ TimeoutReason # "none"
    /\ cfg.iteration_timeout \/ cfg.idle_timeout
    /\ emit_event(Error(iteration,
                        << IF pc \in Waits THEN "Idle timeout" ELSE TimeoutReason >>))
    /\ Kill
    /\ pc' = IF pc \in Waits THEN pc ELSE "wait"
    /\ ClockNext(pc', FALSE)
    /\ UNCHANGED << cfg, iteration, signals, streams, lines_read, git, result, history,
                    stopped_by_command, aside >>

\* Lines 459-488: the one-second sleep wins the select and a configured budget
\* is found exceeded.
StreamTimeout ==
    /\ pc = "select"
    /\ TimeoutReason # "none"
    /\ emit_event(Error(iteration, << TimeoutReason >>))
    /\ Kill
    /\ pc' = "wait"
    /\ ClockNext(pc', FALSE)
    /\ UNCHANGED << cfg, iteration, signals, streams, lines_read, git, result, history,
                    stopped_by_command, aside >>

\* A line read from the child once `events` holds MaxLines Output events of the
\* iteration: the child may go on writing progress lines for ever; they are
\* read like any other (lines 396-421, 428-453), and their Output events are
\* not kept in `events`.
ProgressLine ==
    /\ pc = "select"
    /\ lines_read = MaxLines
    /\ child = "running"
    /\ ~stdout_done \/ ~stderr_done
    /\ pc' = "stream"
    /\ ClockNext(pc', TRUE)
    /\ UNCHANGED << cfg, iteration, signals, child, streams, lines_read, events, git,
                    result, history, stopped_by_command, aside >>

\* Time passes while the select is pending: the iteration deadline of line 330
\* is reached.
DeadlinePasses ==
    /\ pc = "select"
    /\ cfg.iteration_timeout
    /\ ~iteration_expired
    /\ iteration_expired' = TRUE
    /\ idle_expired' = FALSE
    /\ UNCHANGED << cfg, pc, iteration, signals, child, streams, lines_read, events, git,
                    result, history, stopped_by_command, aside >>

\* Time passes while the select is pending: more than idle_timeout has gone
\* by since last_output_time.
IdleElapses ==
    /\ pc = "select"
    /\ cfg.idle_timeout
    /\ ~iteration_expired
    /\ ~idle_expired
    /\ idle_expired' = TRUE
    /\ UNCHANGED << cfg, pc, iteration, signals, child, streams, lines_read, events, git,
                    result, history, iteration_expired, stopped_by_command, aside >>

\* The child terminates by itself (it may also never do so).
ChildExit ==
    /\ pc = "wait"
    /\ child = "running"
    /\ child' = "exited"
    /\ UNCHANGED << cfg, pc, iteration, signals, streams, lines_read, events, git, result,
                    history, clock, stopped_by_command, aside >>

\* Line 493 without the await: the auto-commit step starts at once.
WaitNotAwaited ==
    /\ pc = "wait"
    /\ pc' = "commit"
    /\ UNCHANGED << cfg, iteration, signals, child, streams, lines_read, events, git,
                    result, history, clock, stopped_by_command, aside >>

\* Line 493: child.wait().await returns once the child has terminated.
Wait ==
    /\ pc = "wait"
    /\ child \in { "exited", "reaped" }
    /\ child' = "reaped"
    /\ pc' = "commit"
    /\ UNCHANGED << cfg, iteration, signals, streams, lines_read, events, git, result,
                    history, clock, stopped_by_command, aside >>

\* ------------------------------------------------------------ auto-commit

GitOutcomes == { "ok", "probe_failed", "add_failed", "commit_failed" }

\* The auto-commit step without its test of the porcelain status.
commit_iteration_if_neededNoStatusTest(n, dirty, outcome) ==
    IF ~cfg.auto_commit THEN [ ops |-> << >>, err |-> FALSE ]
    ELSE IF outcome = "probe_failed" THEN [ ops |-> << >>, err |-> TRUE ]
    ELSE IF ~cfg.is_repo THEN [ ops |-> << >>, err |-> FALSE ]
    ELSE IF outcome = "add_failed" THEN [ ops |-> << >>, err |-> TRUE ]
    ELSE IF outcome = "commit_failed"
    THEN [ ops |-> << [ op |-> "add", iteration |-> n ] >>, err |-> TRUE ]
    ELSE [ ops |-> << [ op |-> "add", iteration |-> n ],
                      [ op |-> "commit", iteration |-> n ] >>, err |-> FALSE ]

\* The auto-commit step without its test of the working directory.
commit_iteration_if_neededNoRepoTest(n, dirty, outcome) ==
    IF ~cfg.auto_commit THEN [ ops |-> << >>, err |-> FALSE ]
    ELSE IF outcome = "probe_failed" THEN [ ops |-> << >>, err |-> TRUE ]
    ELSE IF ~dirty THEN [ ops |-> << >>, err |-> FALSE ]
    ELSE IF outcome = "add_failed" THEN [ ops |-> << >>, err |-> TRUE ]
    ELSE IF outcome = "commit_failed"
    THEN [ ops |-> << [ op |-> "add", iteration |-> n ] >>, err |-> TRUE ]
    ELSE [ ops |-> << [ op |-> "add", iteration |-> n ],
                      [ op |-> "commit", iteration |-> n ] >>, err |-> FALSE ]

\* Lines 129-156: what commit_iteration_if_needed does for iteration n when the
\* working tree is `dirty` and the git commands end as `outcome` says: the git
\* mutations it performs, and whether it returns Err.
commit_iteration_if_needed(n, dirty, outcome) ==
    IF ~cfg.auto_commit THEN [ ops |-> << >>, err |-> FALSE ]
    ELSE IF outcome = "probe_failed" THEN [ ops |-> << >>, err |-> TRUE ]
    ELSE IF ~cfg.is_repo THEN [ ops |-> << >>, err |-> FALSE ]
    ELSE IF ~dirty THEN [ ops |-> << >>, err |-> FALSE ]
    ELSE IF outcome = "add_failed" THEN [ ops |-> << >>, err |-> TRUE ]
    ELSE IF outcome = "commit_failed"
    THEN [ ops |-> << [ op |-> "add", iteration |-> n ] >>, err |-> TRUE ]
    ELSE [ ops |-> << [ op |-> "add", iteration |-> n ],
                      [ op |-> "commit", iteration |-> n ] >>, err |-> FALSE ]

\* The auto-commit step with a failure that ends the run.
CommitWithFatalFailure(dirty, outcome) ==
    /\ pc = "commit"
    /\ LET r == commit_iteration_if_needed(iteration, dirty, outcome)
       IN  /\ git' = git \o r.ops
           /\ IF r.err
              THEN Return(Output(iteration, << "[auto-commit] " >>, TRUE),
                          LoopState("Failed", iteration))
              ELSE IF completed
              THEN Return(Completed(iteration), LoopState("Completed", iteration))
              ELSE /\ pc' = "post_gate"
                   /\ UNCHANGED << events, result >>
    /\ UNCHANGED << cfg, iteration, signals, child, streams, lines_read, history, clock,
                    stopped_by_command, aside >>

\* Lines 495-510: the auto-commit step, the working tree being `dirty` and the
\* git commands ending as `outcome` says, then the `completed` test.
CommitWith(dirty, outcome) ==
    /\ pc = "commit"
    /\ LET r == commit_iteration_if_needed(iteration, dirty, outcome)
           failure == IF r.err
                      THEN << Output(iteration, << "[auto-commit] " >>, TRUE) >>
                      ELSE << >>
       IN  /\ git' = git \o r.ops
           /\ IF completed
              THEN /\ events' = events \o failure \o << Completed(iteration) >>
                   /\ result' = LoopState("Completed", iteration)
                   /\ pc' = "done"
              ELSE /\ events' = events \o failure
                   /\ pc' = "post_gate"
                   /\ UNCHANGED result
    /\ UNCHANGED << cfg, iteration, signals, child, streams, lines_read, history, clock,
                    stopped_by_command, aside >>

\* Lines 495-510: the auto-commit step, then the `completed` test.
Commit == \E dirty \in BOOLEAN, outcome \in GitOutcomes : CommitWith(dirty, outcome)

\* The post-iteration gate without its pause check.
PostGateSkipsPause ==
    /\ pc = "post_gate"
    /\ pc' = "gate"
    /\ UNCHANGED << cfg, iteration, signals, child, streams, lines_read, events, git,
                    result, history, clock, stopped_by_command, aside >>

\* Lines 512-517: the pause check that closes an iteration.
PostGate ==
    /\ pc = "post_gate"
    /\ IF pause_requested
       THEN /\ emit_event(Paused(iteration))
            /\ pc' = "post_wait"
            /\ fresh_pause' = FALSE
       ELSE /\ pc' = "gate"
            /\ UNCHANGED << events, fresh_pause >>
    /\ UNCHANGED << cfg, iteration, signals, child, streams, lines_read, git, result,
                    stop_seen, stop_loop_at, clock, stopped_by_command, early_resume,
                    aside >>

\* ------------------------------------------------------- control commands

\* The handle is in running_loops from before the driver task starts until
\* the task has returned.
Registered == pc # "done"

\* pause_loop, lines 272-276 (LoopEngine::pause, lines 550-552).  A call that
\* finds the flag already set changes nothing; it is followed only when it is
\* the first one made during a paused wait.
pause_loop ==
    /\ Registered
    /\ ~pause_requested \/ (pc \in Waits /\ ~fresh_pause)
    /\ pause_requested' = TRUE
    /\ fresh_pause' = IF pc \in Waits THEN TRUE ELSE fresh_pause
    /\ UNCHANGED << cfg, pc, iteration, stop_requested, resume_notify, child, streams,
                    lines_read, events, git, result, stop_seen, stop_loop_at, clock,
                    stopped_by_command, early_resume, aside >>

\* resume_loop, lines 308-310 (LoopEngine::resume, lines 554-556).
resume_loop ==
    /\ Registered
    /\ ~resume_notify
    /\ resume_notify' = TRUE
    /\ early_resume' = ( ~pause_requested /\ pc \notin Waits )
    /\ UNCHANGED << cfg, pc, iteration, pause_requested, stop_requested, child,
                    streams, lines_read, events, git, result, stop_seen, stop_loop_at,
                    fresh_pause, clock, stopped_by_command, aside >>

\* stop_loop, lines 354-361 and 388-393: the stop flag, then a wake-up of the
\* paused wait; the command then emits a Stopped event of its own.
stop_loop ==
    /\ Registered
    /\ stop_requested' = TRUE
    /\ resume_notify' = TRUE
    /\ stopped_by_command' = IF stopped_by_command = "none" THEN "one" ELSE "several"
    /\ stop_loop_at' = IF pc \in Waits /\ ~resume_notify THEN pc ELSE stop_loop_at
    /\ UNCHANGED << cfg, pc, iteration, pause_requested, child, streams, lines_read,
                    events, git, result, stop_seen, fresh_pause, clock, early_resume,
                    aside >>

\* LoopEngine::stop, lines 558-560: the stop flag alone.  The engine is moved
\* into the driver task and the method has no caller, so it is no step of Next.
stop ==
    /\ Registered
    /\ stop_requested' = TRUE
    /\ UNCHANGED << cfg, pc, iteration, pause_requested, resume_notify, child, streams,
                    lines_read, events, git, result, history, clock, stopped_by_command,
                    aside >>

\* ------------------------------------------------------------ specification

Engine ==
    \/ Start
    \/ Gate
    \/ PreWaitNotified
    \/ PreWaitTick
    \/ Spawn
    \/ StreamStop
    \/ StreamSelect
    \/ StdoutLine
    \/ StdoutClosed
    \/ StderrLine
    \/ StderrClosed
    \/ StreamTick
    \/ StreamTimeout
    \/ ProgressLine
    \/ Wait
    \/ Commit
    \/ PostGate
    \/ PostWaitNotified
    \/ PostWaitTick

Next ==
    \/ Engine
    \/ ChildExit
    \/ DeadlinePasses
    \/ IdleElapses
    \/ pause_loop
    \/ resume_loop
    \/ stop_loop

Spec == Init /\ [][Next]_vars

\* The driver task is scheduled fairly; nothing obliges the child to exit or
\* the user to issue a command.
FairSpec == Spec /\ WF_vars(Engine)

\* --------------------------------------------------------- commit message

\* Here a string is a sequence of characters.  The three characters that
\* trim_matches strips are written by name.

Backtick == "BACKTICK"

DoubleQuote == "DOUBLE QUOTE"

SingleQuote == "SINGLE QUOTE"

MaxMessageChars == 72

\* char::is_whitespace, for the characters the model writes.
Whitespace == { " ", "\t", "\r", "\n" }

IsWhitespace(c) == c \in Whitespace

RECURSIVE TrimStartBy(_, _)
TrimStartBy(str, strip) ==
    IF str # << >> /\ Head(str) \in strip THEN TrimStartBy(Tail(str), strip) ELSE str

RECURSIVE TrimEndBy(_, _)
TrimEndBy(str, strip) ==
    IF str # << >> /\ str[Len(str)] \in strip
    THEN TrimEndBy(SubSeq(str, 1, Len(str) - 1), strip)
    ELSE str

\* str::trim.
trim(str) == TrimEndBy(TrimStartBy(str, Whitespace), Whitespace)

\* str::trim_matches(c).
trim_matches(str, c) == TrimEndBy(TrimStartBy(str, { c }), { c })

\* str::lines: the pieces between line feeds, a final line feed ending the
\* last line without opening another; a carriage return before the line feed
\* belongs to the terminator.
RECURSIVE lines(_)
lines(str) ==
    IF str = << >> THEN << >>
    ELSE IF \E i \in 1..Len(str) : str[i] = "\n"
    THEN LET i == CHOOSE k \in 1..Len(str) :
                      str[k] = "\n" /\ \A j \in 1..(k - 1) : str[j] # "\n"
             piece == SubSeq(str, 1, i - 1)
             line == IF piece # << >> /\ piece[Len(piece)] = "\r"
                     THEN SubSeq(piece, 1, Len(piece) - 1) ELSE piece
         IN  << line >> \o lines(SubSeq(str, i + 1, Len(str)))
    ELSE << str >>

\* u32 formatted with "{}".
RECURSIVE Decimal(_)
Decimal(n) ==
    LET digits == << "0", "1", "2", "3", "4", "5", "6", "7", "8", "9" >>
        digit == digits[( n % 10 ) + 1]
    IN  IF n < 10 THEN << digit >> ELSE Decimal(n \div 10) \o << digit >>

\* format!("ralph: iteration {}", iteration), lines 149 and 261.
FallbackMessage(n) ==
    << "r", "a", "l", "p", "h", ":", " ",
       "i", "t", "e", "r", "a", "t", "i", "o", "n", " " >> \o Decimal(n)

\* Lines 250-267 with the truncation left out.
normalize_commit_messageUntruncated(raw, n) ==
    LET trimmed == [ i \in 1..Len(lines(raw)) |-> trim(lines(raw)[i]) ]
        first == IF \E i \in 1..Len(trimmed) : trimmed[i] # << >>
                 THEN trimmed[CHOOSE i \in 1..Len(trimmed) :
                                  /\ trimmed[i] # << >>
                                  /\ \A j \in 1..(i - 1) : trimmed[j] = << >>]
                 ELSE << >>
        stripped == trim_matches(trim_matches(trim_matches(first, Backtick), DoubleQuote),
                                 SingleQuote)
    IN  IF stripped = << >> THEN FallbackMessage(n) ELSE stripped

\* Lines 250-267.
normalize_commit_message(raw, n) ==
    LET trimmed == [ i \in 1..Len(lines(raw)) |-> trim(lines(raw)[i]) ]
        first == IF \E i \in 1..Len(trimmed) : trimmed[i] # << >>
                 THEN trimmed[CHOOSE i \in 1..Len(trimmed) :
                                  /\ trimmed[i] # << >>
                                  /\ \A j \in 1..(i - 1) : trimmed[j] = << >>]
                 ELSE << >>
        stripped == trim_matches(trim_matches(trim_matches(first, Backtick), DoubleQuote),
                                 SingleQuote)
        line == IF stripped = << >> THEN FallbackMessage(n) ELSE stripped
    IN  IF Len(line) > MaxMessageChars THEN SubSeq(line, 1, MaxMessageChars) ELSE line

\* A run of `k` letters.
Letters(k) == [ i \in 1..k |-> "a" ]

\* What the read-only agent may write on its standard output: nothing, blank
\* text, one line or several, text wrapped in backticks or quotes (a blank
\* included), lines shorter and longer than the limit.
AgentOutputs ==
    { before \o Letters(k) \o after :
        before \in { << >>, << "\n" >>, << Backtick >>, << DoubleQuote >>,
                     << SingleQuote, Backtick >>, << Backtick, Backtick, Backtick, "\n" >>,
                     << Backtick, " " >>, << " ", "\r", "\n" >> },
        k \in { 0, 1, MaxMessageChars - 2, MaxMessageChars, MaxMessageChars + 1 },
        after \in { << >>, << Backtick >>, << DoubleQuote, "\n" >>, << " ", Backtick >>,
                    << "\n", "b" >>, << "\r", "\n", "\n", "c", Backtick >> } }

\* Lines 201-210: generate_commit_message, the read-only agent having exited
\* with success and written `out`.
generate_commit_message(out) == [ ok |-> TRUE, text |-> trim(out) ]

\* Lines 201-207: the agent could not be run, or exited with an error.
GenerationFailed == [ ok |-> FALSE, text |-> << "Commit message generation failed" >> ]

\* The engine in the auto-commit step of iteration `n`, the child having closed
\* its streams and exited.
EngineInAutoCommit(n) ==
    /\ cfg = [ cli_type |-> "Codex", max_iterations |-> MaxIter, auto_commit |-> TRUE,
               is_repo |-> TRUE, iteration_timeout |-> FALSE, idle_timeout |-> FALSE ]
    /\ pc = "commit"
    /\ iteration = n
    /\ pause_requested = FALSE
    /\ stop_requested = FALSE
    /\ resume_notify = FALSE
    /\ child = "reaped"
    /\ stdout_done = TRUE
    /\ stderr_done = TRUE
    /\ completed = FALSE
    /\ lines_read = 0
    /\ events = << IterationStart(n) >>
    /\ git = << >>
    /\ result = NoResult
    /\ parsed = NoParsed
    /\ stop_seen = "none"
    /\ stop_loop_at = "none"
    /\ fresh_pause = FALSE
    /\ early_resume = FALSE
    /\ iteration_expired = FALSE
    /\ idle_expired = FALSE
    /\ stopped_by_command = "none"

CommitMessageInit ==
    /\ \E n \in 1..MaxIter : EngineInAutoCommit(n)
    /\ AsideAtRest

\* Line 147: the read-only agent is asked for a message.
GenerateCommitMessage ==
    /\ generated = NotGenerated
    /\ \/ \E out \in AgentOutputs : generated' = generate_commit_message(out)
       \/ generated' = GenerationFailed
    /\ UNCHANGED << engine, further, message, registry, opencode_env >>

\* Lines 147-151: the message handed to `git commit -m`.
SetCommitMessage ==
    /\ generated # NotGenerated
    /\ ~message.set
    /\ LET chosen == IF generated.ok THEN generated.text ELSE FallbackMessage(iteration)
       IN  message' = [ set |-> TRUE, text |-> normalize_commit_message(chosen, iteration) ]
    /\ UNCHANGED << engine, further, generated, registry, opencode_env >>

CommitMessageNext ==
    \/ GenerateCommitMessage
    \/ SetCommitMessage

CommitMessageSpec == CommitMessageInit /\ [][CommitMessageNext]_vars

\* ------------------------------------------------------------ running loops

\* The start_loop calls made for one project, numbered; each builds an engine
\* of its own with its own handle.  `running_loops` is the mapping restricted
\* to the project: the set of calls whose handle is the project's entry (none
\* or one).  `call_pc[i]` is where call `i` and its driver task stand, and
\* `stop_flag[i]` is the stop flag of its engine.

MaxStarts == 3

Calls == 1..MaxStarts

\* The engine of a call, built and not started (this part follows the engine
\* no further: its run is the step from "running" to "returned").
EngineBuilt(cli) ==
    /\ cfg = [ cli_type |-> cli, max_iterations |-> MaxIter, auto_commit |-> FALSE,
               is_repo |-> TRUE, iteration_timeout |-> FALSE, idle_timeout |-> FALSE ]
    /\ pc = "start"
    /\ iteration = 0
    /\ pause_requested = FALSE
    /\ stop_requested = FALSE
    /\ resume_notify = FALSE
    /\ child = "none"
    /\ stdout_done = FALSE
    /\ stderr_done = FALSE
    /\ completed = FALSE
    /\ lines_read = 0
    /\ events = << >>
    /\ git = << >>
    /\ result = NoResult
    /\ parsed = NoParsed
    /\ stop_seen = "none"
    /\ stop_loop_at = "none"
    /\ fresh_pause = FALSE
    /\ early_resume = FALSE
    /\ iteration_expired = FALSE
    /\ idle_expired = FALSE
    /\ stopped_by_command = "none"

RegistryInit ==
    /\ EngineBuilt("Claude")
    /\ generated = NotGenerated
    /\ message = NoMessage
    /\ running_loops = { }
    /\ call_pc = [ i \in Calls |-> "idle" ]
    /\ stop_flag = [ i \in Calls |-> FALSE ]
    /\ process_env = Unset
    /\ shell_env = Unset
    /\ config_file = None
    /\ cmd_env = NoCommand
    /\ FurtherAtRest

\* Lines 15-82: the call returns an error before it builds an engine (no task
\* configured, git cannot be run, Codex outside a repository).
StartLoopRejected(i) ==
    /\ call_pc[i] = "idle"
    /\ call_pc' = [ call_pc EXCEPT ![i] = "rejected" ]
    /\ UNCHANGED << engine, further, commit_text, running_loops, stop_flag, opencode_env >>

\* Lines 95-120: the engine is built and its handle inserted under the
\* project's id, replacing the entry there may be.
StartLoopInsert(i) ==
    /\ call_pc[i] = "idle"
    /\ running_loops' = { i }
    /\ call_pc' = [ call_pc EXCEPT ![i] = "inserted" ]
    /\ UNCHANGED << engine, further, commit_text, stop_flag, opencode_env >>

\* Lines 136-150: the project status cannot be saved; the call returns the
\* error, the entry stays and no driver task is spawned.
StartLoopSaveFails(i) ==
    /\ call_pc[i] = "inserted"
    /\ call_pc' = [ call_pc EXCEPT ![i] = "failed" ]
    /\ UNCHANGED << engine, further, commit_text, running_loops, stop_flag, opencode_env >>

\* Lines 153-155: the driver task is spawned and runs engine.start().
StartLoopSpawn(i) ==
    /\ call_pc[i] = "inserted"
    /\ call_pc' = [ call_pc EXCEPT ![i] = "running" ]
    /\ UNCHANGED << engine, further, commit_text, running_loops, stop_flag, opencode_env >>

\* Line 155: engine.start() returns to the driver task (completion, maximum
\* reached, failure, or stop observed).
DriverEngineReturns(i) ==
    /\ call_pc[i] = "running"
    /\ call_pc' = [ call_pc EXCEPT ![i] = "returned" ]
    /\ UNCHANGED << engine, further, commit_text, running_loops, stop_flag, opencode_env >>

\* Lines 204-206: the driver task removes the project's entry, whichever call
\* inserted it, and ends.
DriverRemoves(i) ==
    /\ call_pc[i] = "returned"
    /\ running_loops' = { }
    /\ call_pc' = [ call_pc EXCEPT ![i] = "ended" ]
    /\ UNCHANGED << engine, further, commit_text, stop_flag, opencode_env >>

\* Lines 352-362 and 395-399: stop_loop raises the stop flag of the handle in
\* the project's entry; without an entry it raises none.
StopLoopLookup ==
    /\ stop_flag' = [ i \in Calls |-> stop_flag[i] \/ i \in running_loops ]
    /\ UNCHANGED << engine, further, commit_text, running_loops, call_pc, opencode_env >>

\* Lines 404-411.
get_loop_status == running_loops # { }

\* The calls whose driver task is executing.
DriverTasks == { i \in Calls : call_pc[i] \in { "running", "returned" } }

RegistryNext ==
    \/ \E i \in Calls :
          \/ StartLoopRejected(i)
          \/ StartLoopInsert(i)
          \/ StartLoopSaveFails(i)
          \/ StartLoopSpawn(i)
          \/ DriverEngineReturns(i)
          \/ DriverRemoves(i)
    \/ StopLoopLookup

RegistrySpec == RegistryInit /\ [][RegistryNext]_vars

\* ------------------------------------------------- OpenCode environment

\* The variable is OPENCODE_CONFIG_CONTENT throughout.  A value of it is a
\* text: its spelling (as the user typed it, or as serde_json writes it), and
\* the JSON value it spells when it is JSON.  A JSON value is an object (a
\* function from keys to values), a string or a number.

Obj(f) == [ obj |-> f ]

Str(str) == [ str |-> str ]

Num(n) == [ num |-> n ]

IsObject(v) == "obj" \in DOMAIN v

EmptyObject == Obj([ k \in { } |-> Str("") ])

Some(v) == [ some |-> TRUE, value |-> v ]

JsonText(spelling, v) ==
    [ set |-> TRUE, unicode |-> TRUE, spelling |-> spelling, json |-> TRUE, value |-> v ]

PlainText(str) ==
    [ set |-> TRUE, unicode |-> TRUE, spelling |-> "typed", json |-> FALSE,
      value |-> Str(str) ]

NotUnicode == [ set |-> TRUE, unicode |-> FALSE ]

\* serde_json::from_str(..).ok() and Value::to_string.
from_str(text) == IF text.json THEN Some(text.value) ELSE None

to_string(v) == JsonText("serde", v)

\* Lines 197-205.
full_access_permissions ==
    Obj([ k \in { "edit", "bash", "webfetch", "doom_loop", "external_directory" } |->
              Str("allow") ])

\* Lines 207-220.
full_access_template ==
    LET granted == Obj([ k \in { "permission" } |-> full_access_permissions ])
        agents == { "general", "build", "plan", "explore" }
    IN  Obj(( "agent" :> Obj([ k \in agents |-> granted ]) )
            @@ ( "mode" :> Obj([ k \in { "build", "plan" } |-> granted ]) ))

\* Lines 176-195.
apply_permissions(config, section, keys, permission) ==
    LET section_map == IF section \in DOMAIN config.obj /\ IsObject(config.obj[section])
                       THEN config.obj[section].obj
                       ELSE EmptyObject.obj
        Entry(key) == IF key \in DOMAIN section_map /\ IsObject(section_map[key])
                      THEN Obj(( "permission" :> permission ) @@ section_map[key].obj)
                      ELSE Obj(( "permission" :> permission ))
        written == [ key \in DOMAIN section_map \cup keys |->
                       IF key \in keys THEN Entry(key) ELSE section_map[key] ]
    IN  Obj(( section :> Obj(written) ) @@ config.obj)

\* Lines 164-174.
merge_permissions(config) ==
    LET object == IF IsObject(config) THEN config ELSE EmptyObject
        agents == apply_permissions(object, "agent",
                                    { "general", "build", "plan", "explore" },
                                    full_access_permissions)
    IN  apply_permissions(agents, "mode", { "build", "plan" }, full_access_permissions)

\* The login-shell snapshot, looked up.
shell_env_value == shell_env

shell_env_has == shell_env.set

\* Lines 110-113: env::var_os.
has_env_key == process_env.set

\* Lines 115-117: env::var fails on a value that is not Unicode.
env_or_shell ==
    IF process_env.set /\ process_env.unicode THEN process_env ELSE shell_env_value

\* Lines 119-122.
load_opencode_config_content ==
    IF env_or_shell.set THEN from_str(env_or_shell) ELSE None

\* Lines 153-162: the first candidate file that can be read and parsed.
load_opencode_config_file == config_file

\* The login-shell variables are put on the command, over the ambient ones.
apply_shell_env(cmd) == IF shell_env.set THEN shell_env ELSE cmd

\* Lines 86-108; `cmd` is the variable as set on the command so far.
apply_full_access(cmd) ==
    IF load_opencode_config_content.some
    THEN to_string(merge_permissions(load_opencode_config_content.value))
    ELSE IF has_env_key \/ shell_env_has
    THEN cmd
    ELSE IF load_opencode_config_file.some
    THEN to_string(merge_permissions(load_opencode_config_file.value))
    ELSE to_string(full_access_template)

\* A user's document that denies file edits to the build agent.
EditDenied ==
    LET permission == Obj(( "edit" :> Str("deny") ))
    IN  Obj(( "agent" :> Obj(( "build" :> Obj(( "permission" :> permission )) )) ))

ThemeOnly == Obj(( "theme" :> Str("dark") ))

\* What the user may have put in the variable: text that is not JSON (the
\* empty text included), JSON that is not an object, an object without
\* permissions, one that denies a permission, and the full-access document
\* itself, typed freely or spelled as serde_json spells it.
UserTexts ==
    { PlainText(""), PlainText("./opencode.json"),
      JsonText("typed", Num(1)),
      JsonText("typed", ThemeOnly), JsonText("serde", ThemeOnly),
      JsonText("typed", EditDenied),
      JsonText("typed", full_access_template), JsonText("serde", full_access_template) }

ConfigFiles == { None, Some(ThemeOnly), Some(EditDenied), Some(Str("text")) }

OpenCodeEnvInit ==
    /\ EngineBuilt("OpenCode")
    /\ generated = NotGenerated
    /\ message = NoMessage
    /\ running_loops = { }
    /\ call_pc = NoCalls
    /\ stop_flag = NoCalls
    /\ process_env \in UserTexts \cup { Unset, NotUnicode }
    /\ shell_env \in UserTexts \cup { Unset }
    /\ config_file \in ConfigFiles
    /\ cmd_env = NoCommand
    /\ FurtherAtRest

\* Lines 44-65: build_run_command, for the iteration's agent or the read-only
\* one.
build_run_command ==
    /\ ~cmd_env.built
    /\ cmd_env' = [ built |-> TRUE, env |-> apply_full_access(apply_shell_env(Unset)) ]
    /\ UNCHANGED << engine, further, commit_text, registry, process_env, shell_env,
                    config_file >>

\* The value the child finds in its environment: the one set on the command,
\* else the inherited one.
ChildSees == IF cmd_env.env.set THEN cmd_env.env ELSE process_env

OpenCodeEnvNext == build_run_command

OpenCodeEnvSpec == OpenCodeEnvInit /\ [][OpenCodeEnvNext]_vars

\* ------------------------------------------------------- Codex arguments

\* A prompt is a string, a sequence of tokens; an argument vector is a
\* sequence of strings.

MaxPrompt == 3

PromptTokens == { "fix", " ", "--skip-git-repo-check" }

RECURSIVE StringsUpTo(_, _)
StringsUpTo(tokens, n) ==
    IF n = 0 THEN { << >> }
    ELSE LET shorter == StringsUpTo(tokens, n - 1)
         IN  shorter \cup { Append(str, t) : str \in shorter, t \in tokens }

Prompts == StringsUpTo(PromptTokens, MaxPrompt)

CommandOptions == [ skip_git_repo_check : BOOLEAN ]

\* The read-only vector built for a sandboxed run.
readonly_argsSandboxed(prompt, options) ==
    << << "exec" >>, << "--sandbox" >>, << "read-only" >> >>
    \o ( IF options.skip_git_repo_check
         THEN << << "--skip-git-repo-check" >> >> ELSE << >> )
    \o << prompt >>

\* codex.rs, lines 21-31.
exec_args(prompt, options) ==
    << << "exec" >>, << "--dangerously-bypass-approvals-and-sandbox" >> >>
    \o ( IF options.skip_git_repo_check
         THEN << << "--skip-git-repo-check" >> >> ELSE << >> )
    \o << prompt >>

\* codex.rs, lines 33-43.
readonly_args(prompt, options) ==
    << << "exec" >>, << "--dangerously-bypass-approvals-and-sandbox" >> >>
    \o ( IF options.skip_git_repo_check
         THEN << << "--skip-git-repo-check" >> >> ELSE << >> )
    \o << prompt >>

CodexArgsInit ==
    /\ EngineBuilt("Codex")
    /\ CommitTextAtRest
    /\ RegistryAtRest
    /\ OpenCodeEnvAtRest
    /\ adapter_call \in [ fn : { "build_exec_command" }, prompt : Prompts,
                          options : CommandOptions ]
    /\ adapter_result = NoCall
    /\ StoreAtRest
    /\ GitCheckAtRest

\* codex.rs, lines 52-57 and 101-103: build_command.
BuildCommand ==
    /\ adapter_result = NoCall
    /\ LET args == exec_args(adapter_call.prompt, adapter_call.options)
       IN  adapter_result' = [ fn |-> "build_command", readonly |-> FALSE,
                               args |-> args ]
    /\ UNCHANGED << engine, commit_text, registry, opencode_env, adapter_call, store,
                    git_check >>

\* codex.rs, lines 52-57 and 105-112: build_readonly_command.
BuildReadonlyCommand ==
    /\ adapter_result = NoCall
    /\ LET args == readonly_args(adapter_call.prompt, adapter_call.options)
       IN  adapter_result' = [ fn |-> "build_readonly_command", readonly |-> TRUE,
                               args |-> args ]
    /\ UNCHANGED << engine, commit_text, registry, opencode_env, adapter_call, store,
                    git_check >>

CodexArgsNext ==
    \/ BuildCommand
    \/ BuildReadonlyCommand

CodexArgsSpec == CodexArgsInit /\ [][CodexArgsNext]_vars

\* ------------------------------------------------------ Claude line parser

\* A line as the Claude adapter reads it: `raw` is its text; `json` says
\* whether serde_json parses it; `role` and `type` are the members of those
\* names (absent, a string, or a value of another kind, as they are when the
\* line is not an object or the member is a number or null); `text` is what
\* extract_text returns.

Absent == [ kind |-> "absent" ]

StringMember(str) == [ kind |-> "string", str |-> str ]

OtherMember == [ kind |-> "other" ]

\* Value::as_str on a member.
as_str(member) == IF member.kind = "string" THEN Some(member.str) ELSE None

Roles == { Absent, OtherMember, StringMember(<< "assistant" >>), StringMember(<< "user" >>),
           StringMember(<< >>) }

EventTypes ==
    { Absent, OtherMember } \cup
    { StringMember(t) : t \in { << "message" >>, << "message", "_delta" >>,
                                << "content", "_block_delta" >>, << "assistant" >>,
                                << "x-", "assistant" >>, << "tool_use" >>, << "ping" >>,
                                << "progress" >>, << >> } }

ExtractedTexts ==
    { None, Some(<< >>), Some(<< " " >>), Some(<< "Hello" >>),
      Some(<< "Hello", " " >> \o completion_signal) }

PlainTexts == { << >>, << "plain", " ", "text" >>, completion_signal,
                << "{", "role", ":" >> \o completion_signal }

\* The text of a JSON line, from its members.
Spell(role, type, text) ==
    << "{", "role", ":" >> \o ( IF role.kind = "string" THEN role.str ELSE << role.kind >> )
    \o << "type", ":" >> \o ( IF type.kind = "string" THEN type.str ELSE << type.kind >> )
    \o << "text", ":" >> \o ( IF text.some THEN text.value ELSE << >> ) \o << "}" >>

ClaudeLines ==
    { [ json |-> TRUE, role |-> role, type |-> type, text |-> text,
        raw |-> Spell(role, type, text) ] :
          role \in Roles, type \in EventTypes, text \in ExtractedTexts }
    \cup
    { [ json |-> FALSE, role |-> Absent, type |-> Absent, text |-> None, raw |-> raw ] :
          raw \in PlainTexts }

\* The parser reading the role only when the type has no assistant word.
claude_parse_output_lineTypeFirst(line) ==
    IF line.json
    THEN LET role == as_str(line.role)
             event_type == IF as_str(line.type).some THEN as_str(line.type).value ELSE << >>
             by_type == \/ Contains(event_type, << "message" >>)
                        \/ Contains(event_type, << "content" >>)
                        \/ Contains(event_type, << "assistant" >>)
             is_assistant == by_type \/ role = Some(<< "assistant" >>)
             content0 == IF line.text.some THEN line.text.value ELSE << >>
             content == IF trim(content0) = << >>
                           /\ event_type # << "ping" >> /\ event_type # << "progress" >>
                        THEN line.raw ELSE content0
         IN  [ content |-> content, line_type |-> "Json", is_assistant |-> is_assistant ]
    ELSE [ content |-> line.raw, line_type |-> "Text", is_assistant |-> FALSE ]

\* claude.rs, lines 145-183.
claude_parse_output_line(line) ==
    IF line.json
    THEN LET role == as_str(line.role)
             event_type == IF as_str(line.type).some THEN as_str(line.type).value ELSE << >>
             by_type == \/ Contains(event_type, << "message" >>)
                        \/ Contains(event_type, << "content" >>)
                        \/ Contains(event_type, << "assistant" >>)
             is_assistant == IF role = None THEN by_type ELSE role = Some(<< "assistant" >>)
             content0 == IF line.text.some THEN line.text.value ELSE << >>
             content == IF trim(content0) = << >>
                           /\ event_type # << "ping" >> /\ event_type # << "progress" >>
                        THEN line.raw ELSE content0
         IN  [ content |-> content, line_type |-> "Json", is_assistant |-> is_assistant ]
    ELSE [ content |-> line.raw, line_type |-> "Text", is_assistant |-> FALSE ]

ClaudeParseInit ==
    /\ EngineBuilt("Claude")
    /\ CommitTextAtRest
    /\ RegistryAtRest
    /\ OpenCodeEnvAtRest
    /\ adapter_call \in [ fn : { "parse_output_line" }, line : ClaudeLines ]
    /\ adapter_result = NoCall
    /\ StoreAtRest
    /\ GitCheckAtRest

\* engine/mod.rs, lines 398 and 416: the line is parsed and the completion
\* test applied to the result.
ParseOutputLine ==
    /\ adapter_result = NoCall
    /\ LET p == claude_parse_output_line(adapter_call.line)
       IN  adapter_result' = [ fn |-> "parse_output_line", parsed |-> p,
                               completes |-> CompletionCheck(p) ]
    /\ UNCHANGED << engine, commit_text, registry, opencode_env, adapter_call, store,
                    git_check >>

ClaudeParseNext == ParseOutputLine

ClaudeParseSpec == ClaudeParseInit /\ [][ClaudeParseNext]_vars

\* ----------------------------------------------------------- stored status

\* The status of one project in the project-state store, written by the
\* driver task that start_loop spawns and by pause_loop, resume_loop and
\* stop_loop.  start_loop has inserted the handle and saved Running; what the
\* commands do to the handle's flags is in the control commands above, here
\* is what they do to the entry's lock and to the store.

MaxCommands == 2

Cmds == 1 .. MaxCommands

CommandKinds == { "pause_loop", "resume_loop", "stop_loop" }

FinalStatuses == { "Done", "Partial", "Failed", "Cancelled" }

NotCalled == [ kind |-> "none", pc |-> "idle" ]

StatusInit ==
    /\ EngineBuilt("Claude")
    /\ CommitTextAtRest
    /\ running_loops = { 1 }
    /\ call_pc = NoCalls
    /\ stop_flag = NoCalls
    /\ OpenCodeEnvAtRest
    /\ AdapterAtRest
    /\ stored_status = "Running"
    /\ task_pc = "engine"
    /\ command = [ c \in Cmds |-> NotCalled ]
    /\ GitCheckAtRest

\* running_loops.read() is held from the lookup to the return of pause_loop
\* and resume_loop (lines 272-300, 308-340); stop_loop drops it at line 362.
ReadGuards ==
    { c \in Cmds : command[c].kind \in { "pause_loop", "resume_loop" }
                   /\ command[c].pc = "found" }

\* The frontend calls one of the three commands.
ControlCalled(c, kind) ==
    /\ command[c].pc = "idle"
    /\ command' = [ command EXCEPT ![c] = [ kind |-> kind, pc |-> "called" ] ]
    /\ UNCHANGED << engine, commit_text, registry, opencode_env, adapter, stored_status,
                    task_pc, git_check >>

\* Lines 272-273 and 298-300, 308-309 and 338-340: pause_loop and resume_loop
\* look the handle up and return the error when there is none.  Lines 352-362:
\* stop_loop looks it up, drops the lock and goes on either way.
ControlLookup(c) ==
    /\ command[c].pc = "called"
    /\ command' = [ command EXCEPT ![c].pc =
                      IF command[c].kind = "stop_loop" THEN "looked"
                      ELSE IF running_loops # { } THEN "found"
                      ELSE "returned" ]
    /\ UNCHANGED << engine, commit_text, registry, opencode_env, adapter, stored_status,
                    task_pc, git_check >>

\* Lines 279-297: pause_loop saves Pausing and returns.
PauseLoopSaves(c) ==
    /\ command[c] = [ kind |-> "pause_loop", pc |-> "found" ]
    /\ stored_status' = "Pausing"
    /\ command' = [ command EXCEPT ![c].pc = "returned" ]
    /\ UNCHANGED << engine, commit_text, registry, opencode_env, adapter, task_pc,
                    git_check >>

\* Lines 313-337: resume_loop saves Running and returns.
ResumeLoopSaves(c) ==
    /\ command[c] = [ kind |-> "resume_loop", pc |-> "found" ]
    /\ stored_status' = "Running"
    /\ command' = [ command EXCEPT ![c].pc = "returned" ]
    /\ UNCHANGED << engine, commit_text, registry, opencode_env, adapter, task_pc,
                    git_check >>

\* Lines 279, 295, 313, 335: the store cannot be read or written; the command
\* returns the error and the stored status is as it was.
ControlStoreFails(c) ==
    /\ c \in ReadGuards
    /\ command' = [ command EXCEPT ![c].pc = "returned" ]
    /\ UNCHANGED << engine, commit_text, registry, opencode_env, adapter, stored_status,
                    task_pc, git_check >>

\* Lines 364-399: stop_loop saves Cancelled, whether it found a handle or
\* not, and returns.
StopLoopSaves(c) ==
    /\ command[c] = [ kind |-> "stop_loop", pc |-> "looked" ]
    /\ stored_status' = "Cancelled"
    /\ command' = [ command EXCEPT ![c].pc = "returned" ]
    /\ UNCHANGED << engine, commit_text, registry, opencode_env, adapter, task_pc,
                    git_check >>

\* Lines 364 and 385: the store cannot be read or written; stop_loop goes on.
StopLoopStoreFails(c) ==
    /\ command[c] = [ kind |-> "stop_loop", pc |-> "looked" ]
    /\ command' = [ command EXCEPT ![c].pc = "returned" ]
    /\ UNCHANGED << engine, commit_text, registry, opencode_env, adapter, stored_status,
                    task_pc, git_check >>

\* Lines 155-201: engine.start() has returned and the driver task saves the
\* status that the result stands for.
DriverSaves(status) ==
    /\ task_pc = "engine"
    /\ stored_status' = status
    /\ task_pc' = "saved"
    /\ UNCHANGED << engine, commit_text, registry, opencode_env, adapter, command,
                    git_check >>

\* Lines 159 and 201: the store cannot be read or written; the task goes on.
DriverStoreFails ==
    /\ task_pc = "engine"
    /\ task_pc' = "unsaved"
    /\ UNCHANGED << engine, commit_text, registry, opencode_env, adapter, stored_status,
                    command, git_check >>

\* Lines 204-206: the driver task takes running_loops.write(), which waits for
\* every read guard to be dropped, removes the entry and ends.
DriverDropsEntry ==
    /\ task_pc \in { "saved", "unsaved" }
    /\ ReadGuards = { }
    /\ running_loops' = { }
    /\ task_pc' = IF task_pc = "saved" THEN "ended" ELSE "ended_unsaved"
    /\ UNCHANGED << engine, commit_text, call_pc, stop_flag, opencode_env, adapter,
                    stored_status, command, git_check >>

StatusNext ==
    \/ \E c \in Cmds :
          \/ \E kind \in CommandKinds : ControlCalled(c, kind)
          \/ ControlLookup(c)
          \/ PauseLoopSaves(c)
          \/ ResumeLoopSaves(c)
          \/ ControlStoreFails(c)
          \/ StopLoopSaves(c)
          \/ StopLoopStoreFails(c)
    \/ \E status \in FinalStatuses : DriverSaves(status)
    \/ DriverStoreFails
    \/ DriverDropsEntry

StatusSpec == StatusInit /\ [][StatusNext]_vars

\* ------------------------------------------------------ repository check

\* start_loop, lines 67-108: what the command finds out about the project
\* directory and what it does to project_state.skip_git_repo_check before it
\* builds the engine.  The task and the stored flag are as loaded at lines
\* 16-62; the directory is a repository or not.

Tasks == [ cli : { "Claude", "Codex", "OpenCode" }, auto_init_git : BOOLEAN ]

\* `git rev-parse --is-inside-work-tree` in the directory.
rev_parse(is_work_tree) ==
    IF is_work_tree THEN [ success |-> TRUE, stdout |-> "true" ]
    ELSE [ success |-> FALSE, stdout |-> "" ]

is_git_repoUnread(output) == TRUE

\* is_git_repo, lines 259-264, on the output of the git command.
is_git_repo(output) == output.success /\ output.stdout = "true"

GitCheckInit ==
    /\ EngineBuilt("Codex")
    /\ CommitTextAtRest
    /\ RegistryAtRest
    /\ OpenCodeEnvAtRest
    /\ AdapterAtRest
    /\ StoreAtRest
    /\ task \in Tasks
    /\ dir_is_repo \in BOOLEAN
    /\ skip_git_repo_check \in BOOLEAN
    /\ local_is_repo = FALSE
    /\ start_loop_pc = "called"

\* Line 67: is_git_repo returns Ok.
ProbeRepo ==
    /\ start_loop_pc = "called"
    /\ local_is_repo' = is_git_repo(rev_parse(dir_is_repo))
    /\ start_loop_pc' = "probed"
    /\ UNCHANGED << engine, commit_text, registry, opencode_env, adapter, store, task,
                    dir_is_repo, skip_git_repo_check >>

\* Lines 67 and 250-257: git cannot be run and start_loop returns the error.
ProbeFails ==
    /\ start_loop_pc = "called"
    /\ start_loop_pc' = "error"
    /\ UNCHANGED << engine, commit_text, registry, opencode_env, adapter, store, task,
                    dir_is_repo, skip_git_repo_check, local_is_repo >>

\* Lines 68-73: `git init` succeeds; the directory is a repository from now
\* on and the stored flag is cleared.
InitRepo ==
    /\ start_loop_pc = "probed"
    /\ task.auto_init_git /\ ~local_is_repo
    /\ dir_is_repo' = TRUE
    /\ local_is_repo' = TRUE
    /\ skip_git_repo_check' = FALSE
    /\ start_loop_pc' = "decided"
    /\ UNCHANGED << engine, commit_text, registry, opencode_env, adapter, store, task >>

\* Lines 69 and 233-246: `git init` fails and start_loop returns the error.
InitRepoFails ==
    /\ start_loop_pc = "probed"
    /\ task.auto_init_git /\ ~local_is_repo
    /\ start_loop_pc' = "error"
    /\ UNCHANGED << engine, commit_text, registry, opencode_env, adapter, store, task,
                    dir_is_repo, skip_git_repo_check, local_is_repo >>

\* Lines 74-76: no repository, none to be made, and the tool is Codex: the
\* flag is set.
SkipRepoCheck ==
    /\ start_loop_pc = "probed"
    /\ ~task.auto_init_git /\ ~local_is_repo /\ task.cli = "Codex"
    /\ skip_git_repo_check' = TRUE
    /\ start_loop_pc' = "decided"
    /\ UNCHANGED << engine, commit_text, registry, opencode_env, adapter, store, task,
                    dir_is_repo, local_is_repo >>

\* Lines 68-76: neither branch is taken.
KeepRepoCheck ==
    /\ start_loop_pc = "probed"
    /\ ~( task.auto_init_git /\ ~local_is_repo )
    /\ ~( ~task.auto_init_git /\ ~local_is_repo /\ task.cli = "Codex" )
    /\ start_loop_pc' = "decided"
    /\ UNCHANGED << engine, commit_text, registry, opencode_env, adapter, store, task,
                    dir_is_repo, skip_git_repo_check, local_is_repo >>

\* Lines 78-108: the refusal of Codex outside a repository, else the engine is
\* built with project_state.skip_git_repo_check as it now is.
CreateEngine ==
    /\ start_loop_pc = "decided"
    /\ start_loop_pc' =
         IF task.cli = "Codex" /\ ~skip_git_repo_check /\ ~local_is_repo
         THEN "error" ELSE "created"
    /\ UNCHANGED << engine, commit_text, registry, opencode_env, adapter, store, task,
                    dir_is_repo, skip_git_repo_check, local_is_repo >>

GitCheckNext ==
    \/ ProbeRepo
    \/ ProbeFails
    \/ InitRepo
    \/ InitRepoFails
    \/ SkipRepoCheck
    \/ KeepRepoCheck
    \/ CreateEngine

GitCheckSpec == GitCheckInit /\ [][GitCheckNext]_vars

\* ------------------------------------------------------------------ claims

Last(seq) == seq[Len(seq)]

HasEvent(t) == \E i \in 1..Len(events) : events[i].type = t

\* C1: the iteration counter never exceeds max_iterations, and every emitted
\* event that carries an iteration number carries one that is at most
\* max_iterations, whatever spawn failures, timeouts, pauses, resumes and
\* stops occur.
C1_IterationBound ==
    /\ iteration <= cfg.max_iterations
    /\ \A i \in 1..Len(events) :
         events[i].type # "Stopped" => events[i].iteration <= cfg.max_iterations

\* A run that used up the largest bound, its last iteration ended by a timeout.
C1_Witness ==
    /\ cfg.max_iterations = MaxIter
    /\ result = LoopState("MaxIterationsReached", MaxIter)
    /\ HasEvent("Error")
    /\ Last(events) = MaxIterationsReached(MaxIter)

\* C2: `completed` is only ever set by a stdout line that the adapter marked
\* assistant-originated and whose content contains the completion signal, that
\* line having been emitted as an Output of the iteration; and when start()
\* returns Completed{n} it has just emitted Completed at n, after that Output.
C2_CompletionFromAssistantLine ==
    /\ completed =>
         /\ parsed.is_assistant
         /\ Contains(parsed.content, completion_signal)
         /\ \E i \in 1..Len(events) : events[i] = Output(iteration, parsed.content, FALSE)
    /\ result.state = "Completed" =>
         /\ completed
         /\ result.iteration = iteration
         /\ Last(events) = Completed(iteration)
         /\ \E i \in 1..(Len(events) - 1) :
              events[i] = Output(iteration, parsed.content, FALSE)
    /\ HasEvent("Completed") => result.state = "Completed"

\* A Claude run that completed after a non-assistant line carrying the signal
\* had been read and passed over.
C2_Witness ==
    /\ cfg.cli_type = "Claude"
    /\ result.state = "Completed"
    /\ \E i, j \in 1..Len(events) :
         /\ i < j
         /\ events[i] = Output(iteration, completion_signal, FALSE)
         /\ events[j] = Output(iteration, AssistantDone.text, FALSE)

\* C3: with the Codex adapter, an iteration in which the child wrote a line
\* containing the completion signal and then exited by itself ends with
\* Completed emitted and Completed{iteration} returned.  (Codex stdout lines
\* with the signal end the iteration at once, so an iteration that got past
\* its auto-commit step with such an Output read the line on standard error.)
C3_StderrSignalCompletes ==
    ( /\ cfg.cli_type = "Codex"
      /\ pc \notin { "stream", "select", "wait", "commit" }
      /\ \E i \in 1..Len(events) : events[i] = Output(iteration, completion_signal, FALSE)
      /\ ~HasEvent("Error")
      /\ stop_seen = "none" )
    => result = LoopState("Completed", iteration)

\* C4: once the engine has read stop_requested as set (at the pre-spawn gate,
\* in the streaming loop, or in a paused wait) it has returned Idle with
\* Stopped as its last event, no child is left running, and when the stop was
\* read in the streaming loop no git add or commit was made for that iteration.
C4_StopObserved ==
    stop_seen # "none" =>
        /\ pc = "done"
        /\ result = Idle
        /\ Last(events) = Stopped
        /\ child # "running"
        /\ stop_seen = "stream" => git = << >>

\* A stop read in the streaming loop, after some output, of an engine that
\* auto-commits inside a repository.
C4_Witness ==
    /\ stop_seen = "stream"
    /\ cfg.auto_commit /\ cfg.is_repo
    /\ child = "reaped"
    /\ Len(events) >= 3
    /\ events[2].type = "Output"

\* C5: after stop_loop has been called during a paused wait, the engine either
\* is still in that wait or has returned Idle with Stopped as the event that
\* follows Paused: no Resumed, IterationStart or MaxIterationsReached, no child.
C5_StopWhilePaused ==
    stop_loop_at \in Waits =>
        \/ pc = stop_loop_at
        \/ /\ pc = "done"
           /\ result = Idle
           /\ Last(events) = Stopped
           /\ events[Len(events) - 1] = Paused(iteration)

\* C6: a stop requested while the driver task is executing (after the first
\* statements of start() have run) eventually leads, under fair scheduling of
\* the driver task, to the engine returning, even if the child never exits.
C6_StopLeadsToReturn ==
    [](( stop_requested /\ pc # "start" ) => <>( pc = "done" ))

\* C7: once stop_requested is set, no step clears it.
C7_StopPermanent ==
    [][ stop_requested => stop_requested' ]_vars

\* C8: when the engine leaves a gate (pre-spawn or post-iteration) that it
\* reached with stop_requested and pause_requested both set, it has emitted
\* Stopped and returned Idle: no Paused, no paused wait.
C8_StopBeatsPause ==
    [][ ( /\ \/ pc = "post_gate"
             \/ pc = "gate" /\ LoopCondition
          /\ stop_requested /\ pause_requested
          /\ pc' # pc )
        => ( pc' = "done" /\ result' = Idle /\ Last(events') = Stopped ) ]_vars

\* C9, as stated: the flag is cleared on entering the paused wait, so it is
\* set during the wait only if a fresh pause was requested there, and such a
\* request is still set once the engine has resumed.
C9_ClearedOnEntry ==
    /\ ( pc \in Waits /\ ~fresh_pause ) => ~pause_requested
    /\ ( fresh_pause /\ pc \in { "spawn", "gate" } /\ Last(events) = Resumed(iteration) )
       => pause_requested

\* C9, amended: pause_requested stays set throughout the paused wait and is
\* cleared when the wait ends on a resume, so the engine leaves the wait
\* towards further work only with Resumed emitted and the flag clear, a
\* pause requested during the wait included.
C9_ClearedOnResume ==
    /\ []( pc \in Waits => pause_requested )
    /\ [][ ( pc \in Waits /\ pc' \notin Waits \cup { "done" } )
           => ( ~pause_requested' /\ Last(events') = Resumed(iteration) ) ]_vars

\* The engine has just resumed from a wait during which pause_loop was called,
\* and the flag is clear.
C9_Witness ==
    /\ fresh_pause
    /\ pc \in { "spawn", "gate" }
    /\ Last(events) = Resumed(iteration)
    /\ ~pause_requested

\* C10: pause and resume do not touch the iteration counter and spawn no
\* child: every Paused and Resumed emitted since the iteration was counted
\* carries the counter's value, every Resumed directly follows a Paused with
\* the same number, and in a paused wait no child is running.
C10_PauseResumeFrame ==
    /\ \A i \in 1..Len(events) :
         events[i].type \in { "Paused", "Resumed" } => events[i].iteration = iteration
    /\ \A i \in 1..Len(events) :
         events[i].type = "Resumed" => ( i > 1 /\ events[i - 1] = Paused(iteration) )
    /\ pc \in Waits => ( child # "running" /\ Last(events) = Paused(iteration) )

\* Two pause-resume cycles since the latest iteration was counted.
C10_Witness ==
    /\ iteration >= 1
    /\ \E i, j \in 1..Len(events) :
         /\ i < j
         /\ events[i] = Resumed(iteration)
         /\ events[j] = Resumed(iteration)

\* C11: repeated stop calls are equivalent to one: a stop_loop call made
\* against a running engine whose stop has already been requested by an
\* earlier call adds no loop event and leaves the engine's return value alone.
C11_RepeatedStopIsOneStop ==
    [][ ( stop_loop /\ stop_requested /\ stopped_by_command # "none" )
        => UNCHANGED << stopped_by_command, events, result >> ]_vars

\* C12: a pause requested while iteration k runs is honoured once the iteration
\* has ended without completing the loop: the post-iteration gate emits
\* Paused{k} and enters the paused wait; in a paused wait no child runs, none
\* is spawned and k is not counted again; with no stop requested the wait is
\* left only with Resumed{k} emitted; and when k < max_iterations and neither
\* flag is set the event that follows Resumed{k} is IterationStart{k+1}.
C12_PauseBetweenIterations ==
    /\ [][ ( pc = "post_gate" /\ pause_requested /\ pc' # pc )
           => ( /\ events' = Append(events, Paused(iteration))
                /\ pc' = "post_wait"
                /\ iteration' = iteration
                /\ child' = child ) ]_vars
    /\ [][ ( pc \in Waits )
           => ( child # "running" /\ child' = child /\ iteration' = iteration ) ]_vars
    /\ [][ ( pc \in Waits /\ ~stop_requested /\ pc' # pc )
           => ( /\ events' = Append(events, Resumed(iteration))
                /\ events[Len(events)] = Paused(iteration)
                /\ pc' = IF pc = "post_wait" THEN "gate" ELSE "spawn" ) ]_vars
    /\ [][ ( /\ pc \in { "gate", "spawn" }
             /\ Len(events) > 0
             /\ Last(events) = Resumed(iteration)
             /\ LoopCondition
             /\ ~stop_requested /\ ~pause_requested
             /\ events' # events )
           => ( /\ iteration' = iteration + 1
                /\ events'[1] = IterationStart(iteration + 1) ) ]_vars

\* Iteration 1 of several ran, read output and ended; the engine paused after
\* it, was resumed, passed the gate, and is about to count iteration 2.
C12_Witness ==
    /\ pc = "spawn"
    /\ iteration = 1
    /\ LoopCondition
    /\ ~stop_requested /\ ~pause_requested
    /\ Len(events) >= 4
    /\ events[1] = IterationStart(1)
    /\ events[2].type = "Output"
    /\ events[Len(events) - 1] = Paused(1)
    /\ Last(events) = Resumed(1)
    /\ child = "reaped"

IsTimeoutError(e) ==
    e.type = "Error" /\ e.content \in { << "Iteration timeout" >>, << "Idle timeout" >> }

\* C13: no iteration-timeout or idle-timeout Error is emitted while the engine
\* is in a paused wait: a step taken in a paused wait emits nothing but
\* Resumed or Stopped, and a state in a paused wait has Paused as its last
\* event, with budgets configured as without.
C13_NoTimeoutWhilePaused ==
    /\ []( pc \in Waits => ~IsTimeoutError(Last(events)) )
    /\ [][ ( pc \in Waits /\ events' # events )
           => ( /\ Len(events') = Len(events) + 1
                /\ Last(events').type \in { "Resumed", "Stopped" } ) ]_vars

\* An engine with both budgets configured paused after an iteration that a
\* timeout had ended, and was resumed from that wait.
C13_Witness ==
    /\ cfg.iteration_timeout /\ cfg.idle_timeout
    /\ pc = "gate"
    /\ Len(events) >= 4
    /\ IsTimeoutError(events[Len(events) - 2])
    /\ events[Len(events) - 1] = Paused(iteration)
    /\ Last(events) = Resumed(iteration)

\* C14: when an iteration timeout is configured and its deadline has passed
\* with the child still running in the streaming loop, the iteration
\* eventually ends (the driver task being scheduled fairly), however often the
\* child goes on writing lines.
C14_DeadlineEndsIteration ==
    []( ( /\ cfg.iteration_timeout
          /\ iteration_expired
          /\ pc \in { "stream", "select" }
          /\ child = "running" )
        => <>( pc \notin { "stream", "select" } ) )

HasTimeoutError == \E i \in 1..Len(events) : IsTimeoutError(events[i])

\* C15: a timeout ends only the current iteration.  Once the iteration's
\* timeout Error has been emitted the streaming loop is over, the child is
\* gone and the iteration is counted; the engine never returns Failed or
\* Completed, returns Idle only for a stop it observed at a gate or in a
\* paused wait, and returns MaxIterationsReached{n} only with n =
\* max_iterations; with no stop and no pause pending it passes the gate
\* towards IterationStart{n+1} when n < max_iterations and returns
\* MaxIterationsReached{n} otherwise.
C15_TimeoutEndsIterationOnly ==
    /\ []( HasTimeoutError =>
             /\ pc \notin { "stream", "select" }
             /\ child = "reaped"
             /\ events[1] = IterationStart(iteration)
             /\ result.state \in { "Running", "Idle", "MaxIterationsReached" }
             /\ result = Idle => stop_seen \in { "gate", "pre_wait", "post_wait" }
             /\ result.state = "MaxIterationsReached" =>
                  ( result.iteration = iteration /\ iteration = cfg.max_iterations ) )
    /\ [][ ( /\ HasTimeoutError
             /\ pc = "gate"
             /\ ~stop_requested /\ ~pause_requested
             /\ pc' # pc )
           => IF LoopCondition
              THEN pc' = "spawn" /\ events' = events
              ELSE /\ result' = LoopState("MaxIterationsReached", iteration)
                   /\ Last(events') = MaxIterationsReached(iteration) ]_vars
    /\ [][ ( HasTimeoutError /\ pc = "spawn" /\ pc' # pc )
           => ( /\ iteration' = iteration + 1
                /\ events'[1] = IterationStart(iteration + 1) ) ]_vars

\* An engine bounded to one iteration whose child fell silent: the idle
\* timeout ended the iteration and the engine returned MaxIterationsReached{1}.
C15_Witness ==
    /\ cfg.max_iterations = 1
    /\ result = LoopState("MaxIterationsReached", 1)
    /\ \E i \in 1..Len(events) : events[i] = Error(1, << "Idle timeout" >>)
    /\ child = "reaped"

\* The stdout branch of the select can yield a line that passes the completion
\* test: the guard of StdoutLine, for such a line of the child.
SentinelLineReady ==
    /\ pc = "select"
    /\ ~stdout_done
    /\ lines_read < MaxLines
    /\ \E l \in ChildLines(cfg.cli_type) :
         CompletionCheck(parse_output_line(cfg.cli_type, l))

\* C16: completion beats timeout: when, as the select is polled, a stdout line
\* carrying the sentinel is available and a configured budget is exceeded, the
\* engine emits no timeout Error for the iteration.
C16_SentinelBeatsTimeout ==
    [][ ( SentinelLineReady /\ TimeoutReason # "none" /\ events' # events )
        => ~IsTimeoutError(Last(events')) ]_vars

NoBudget == ~cfg.iteration_timeout /\ ~cfg.idle_timeout

\* C17: with iteration_timeout and idle_timeout both None the engine emits no
\* timeout Error, and the streaming loop of an iteration is left only through
\* the completion signal, a stop read at the top of the loop, the Codex
\* trusted-directory refusal, or both streams of the child being closed.
C17_NoBudgetNoTimeout ==
    /\ []( NoBudget => ( ~HasTimeoutError /\ ~iteration_expired /\ ~idle_expired ) )
    /\ [][ ( /\ NoBudget
             /\ pc \in { "stream", "select" }
             /\ pc' \notin { "stream", "select" } )
           => \/ completed' /\ CompletionCheck(parsed')
              \/ stop_seen' = "stream" /\ result' = Idle
              \/ /\ result' = LoopState("Failed", iteration)
                 /\ Last(events') = Error(iteration, CODEX_GIT_REPO_CHECK_REQUIRED)
              \/ stdout_done' /\ stderr_done' ]_vars

\* An engine without budgets whose child wrote a line, closed both streams
\* without the completion signal, and was reaped.
C17_Witness ==
    /\ NoBudget
    /\ pc = "commit"
    /\ stdout_done /\ stderr_done
    /\ ~completed
    /\ lines_read >= 1
    /\ Last(events).type = "Output"

\* C18: on the Codex tool a stderr line holding both "Not inside a trusted
\* directory" and "skip-git-repo-check" makes the engine emit Error with
\* reason codex_git_repo_check_required, kill the child and return
\* Failed{iteration} at once, no git mutation made for the iteration and no
\* further iteration started; on the other tools the line is only forwarded
\* as an Output event, and the engine never returns Failed.
C18_CodexTrustRefusal ==
    /\ []( result.state = "Failed" =>
             /\ cfg.cli_type = "Codex"
             /\ pc = "done"
             /\ result.iteration = iteration
             /\ events[1] = IterationStart(iteration)
             /\ Last(events) = Error(iteration, CODEX_GIT_REPO_CHECK_REQUIRED)
             /\ child = "reaped"
             /\ git = << >> )
    /\ []( ( \E i \in 1..Len(events) : events[i].content = CODEX_GIT_REPO_CHECK_REQUIRED )
           => result.state = "Failed" )
    /\ [][ ReadStderr(TrustError)
           => IF cfg.cli_type = "Codex"
              THEN /\ events' = Append(events,
                                       Error(iteration, CODEX_GIT_REPO_CHECK_REQUIRED))
                   /\ child' = "reaped"
                   /\ result' = LoopState("Failed", iteration)
                   /\ pc' = "done"
              ELSE /\ events' = Append(events, Output(iteration, TrustError.text, TRUE))
                   /\ child' = child
                   /\ result' = result
                   /\ pc' = "stream" ]_vars
    /\ [][ ( result.state = "Failed" )
           => UNCHANGED << events, git, iteration, child, result >> ]_vars

\* A Codex engine with auto-commit on returned Failed in its second iteration,
\* the child having written a line before the refusal.
C18_Witness ==
    /\ cfg.cli_type = "Codex"
    /\ cfg.auto_commit
    /\ result = LoopState("Failed", 2)
    /\ Len(events) >= 3
    /\ events[2].type = "Output"
    /\ Last(events) = Error(2, CODEX_GIT_REPO_CHECK_REQUIRED)

\* C19: after a failed spawn at iteration n the engine applies the pause gate
\* before going on: leaving the gate it reached with a pause pending and no
\* stop requested, it has emitted Paused{n} and entered a paused wait, also
\* when n = max_iterations.
C19_SpawnFailureThenGate ==
    [][ ( /\ pc = "gate"
          /\ events = << IterationStart(iteration),
                         Error(iteration, << "Failed to spawn CLI" >>) >>
          /\ pause_requested /\ ~stop_requested
          /\ pc' # pc )
        => ( Last(events') = Paused(iteration) /\ pc' \in Waits ) ]_vars

\* C20: when auto_commit is false, or the working directory is not a
\* repository, the engine performs no git mutation (git add, git commit), in
\* any iteration and on any exit path; and a mutation it does perform is made
\* by the auto-commit step of the iteration it is attributed to.
C20_NoGitMutationUnlessEnabled ==
    /\ ( ~cfg.auto_commit \/ ~cfg.is_repo ) => git = << >>
    /\ \A i \in 1..Len(git) : git[i].iteration = iteration
    /\ pc \in { "stream", "select", "wait", "commit" } => git = << >>

\* An engine with auto-commit on, outside a repository, has run the
\* auto-commit step of an iteration whose child wrote output.
C20_Witness ==
    /\ cfg.auto_commit /\ ~cfg.is_repo
    /\ pc = "post_gate"
    /\ lines_read >= 1
    /\ git = << >>

CommitCount(g) == Cardinality({ i \in 1..Len(g) : g[i].op = "commit" })

AutoCommitInRepo == cfg.auto_commit /\ cfg.is_repo

\* The iteration counted last ended before a child could run.
SpawnFailed ==
    /\ Len(events) >= 2
    /\ events[2].type = "Error"
    /\ events[2].content \in { << "Failed to spawn CLI" >>,
                               << "Failed to write Claude prompt" >> }

\* C21, as stated: with auto_commit on inside a repository, the auto-commit
\* step of an iteration records exactly one commit when the working tree is
\* dirty and none when it is clean.
C21_OneCommitPerDirtyIteration ==
    [][ \A dirty \in BOOLEAN, outcome \in GitOutcomes :
          ( AutoCommitInRepo /\ CommitWith(dirty, outcome) )
          => CommitCount(git') = IF dirty THEN 1 ELSE 0 ]_vars

\* C21, amended: with auto_commit on inside a repository, an iteration whose
\* child was spawned and whose streaming loop ended by completion, by a
\* timeout or by both streams closing runs the auto-commit step once; when
\* every git command succeeds the step records one add and one commit of that
\* iteration on a dirty tree and nothing on a clean one; when a git command
\* fails it records no commit.  No iteration records more than one commit, git
\* mutations are made by the auto-commit step alone, and an iteration ended by
\* a spawn failure, a stop or the Codex refusal records none.
C21_OneCommitWhenGitSucceeds ==
    /\ [][ \A dirty \in BOOLEAN :
             CommitWith(dirty, "ok")
             => git' = IF AutoCommitInRepo /\ dirty
                       THEN << [ op |-> "add", iteration |-> iteration ],
                               [ op |-> "commit", iteration |-> iteration ] >>
                       ELSE << >> ]_vars
    /\ [][ \A dirty \in BOOLEAN, outcome \in GitOutcomes \ { "ok" } :
             CommitWith(dirty, outcome) => CommitCount(git') = 0 ]_vars
    /\ [][ ( git' # git /\ git' # << >> ) => ( pc = "commit" /\ pc' # pc ) ]_vars
    /\ []( CommitCount(git) <= 1 )
    /\ []( ( SpawnFailed \/ stop_seen = "stream" \/ result.state = "Failed" )
           => git = << >> )

\* An engine auto-committing in a repository recorded the commit of an
\* iteration that a timeout had ended.
C21_Witness ==
    /\ AutoCommitInRepo
    /\ HasTimeoutError
    /\ pc = "post_gate"
    /\ git = << [ op |-> "add", iteration |-> iteration ],
                [ op |-> "commit", iteration |-> iteration ] >>

AutoCommitFailure(n) == Output(n, << "[auto-commit] " >>, TRUE)

AutoCommitFailures == { i \in 1..Len(events) : events[i] = AutoCommitFailure(iteration) }

\* C22: a failure of the auto-commit step is isolated from loop control.  The
\* step that fails emits one Output on the stderr channel prefixed
\* "[auto-commit] " and otherwise does what the succeeding step does: Completed
\* emitted and returned when the iteration completed, the post-iteration
\* gate next when it did not, the flags, the counter and the child untouched.
\* An iteration carries at most one such Output, and none while no git
\* command can fail (auto_commit off).
C22_AutoCommitFailureIsolated ==
    /\ [][ \A dirty \in BOOLEAN, outcome \in GitOutcomes :
             ( CommitWith(dirty, outcome)
               /\ commit_iteration_if_needed(iteration, dirty, outcome).err )
             => /\ events' = events \o << AutoCommitFailure(iteration) >>
                              \o ( IF completed THEN << Completed(iteration) >> ELSE << >> )
                /\ pc' = IF completed THEN "done" ELSE "post_gate"
                /\ result' = IF completed THEN LoopState("Completed", iteration)
                             ELSE result
                /\ UNCHANGED << cfg, iteration, signals, child, streams, clock >> ]_vars
    /\ [][ \A dirty \in BOOLEAN, outcome \in GitOutcomes :
             ( CommitWith(dirty, outcome)
               /\ ~commit_iteration_if_needed(iteration, dirty, outcome).err )
             => /\ events' = events
                              \o ( IF completed THEN << Completed(iteration) >> ELSE << >> )
                /\ pc' = IF completed THEN "done" ELSE "post_gate"
                /\ result' = IF completed THEN LoopState("Completed", iteration)
                             ELSE result
                /\ UNCHANGED << cfg, iteration, signals, child, streams, clock >> ]_vars
    /\ []( Cardinality(AutoCommitFailures) <= 1 )
    /\ []( ~cfg.auto_commit => AutoCommitFailures = { } )
    /\ []( result.state = "Failed" => AutoCommitFailures = { } )

\* A run returned Completed although the auto-commit step of the completing
\* iteration had failed after git add.
C22_Witness ==
    /\ result = LoopState("Completed", iteration)
    /\ Len(events) >= 3
    /\ events[Len(events) - 1] = AutoCommitFailure(iteration)
    /\ Last(events) = Completed(iteration)
    /\ git = << [ op |-> "add", iteration |-> iteration ] >>

\* C23: within an iteration IterationStart comes before every Output, and every
\* Output before the iteration's terminal event: of the events emitted since
\* the latest IterationStart, the first is that IterationStart once an Output
\* of the iteration exists, and no Output follows an Error, a Completed or a
\* MaxIterationsReached.
C23_OutputBeforeTerminal ==
    /\ ( \E i \in 1..Len(events) : events[i].type = "Output" )
       => events[1] = IterationStart(iteration)
    /\ \A i, j \in 1..Len(events) :
         ( i < j /\ events[i].type \in { "Error", "Completed", "MaxIterationsReached" } )
         => events[j].type # "Output"

\* C24: a run that has returned ended its events with a terminal event: the
\* last event emitted before start() returned is Completed,
\* MaxIterationsReached or Stopped, never an Error.
C24_TerminalEventLast ==
    pc = "done" =>
        Last(events).type \in { "Completed", "MaxIterationsReached", "Stopped" }

\* C25: at most one child process belongs to the engine.  The agent child of
\* an iteration has been reaped when the auto-commit step, which runs a
\* read-only agent process, starts; and a child is spawned only when the
\* engine holds no child or a reaped one.
C25_OneChildAtATime ==
    /\ []( pc = "commit" => child = "reaped" )
    /\ []( pc = "spawn" => child \in { "none", "reaped" } )
    /\ [][ ( child # "running" /\ child' = "running" )
           => ( pc = "spawn" /\ child \in { "none", "reaped" } ) ]_vars
    /\ [][ ( pc = "commit" /\ pc' # pc ) => child' = "reaped" ]_vars

\* The second child of an engine that auto-commits in a repository is running:
\* the first one was reaped and the auto-commit step ran before it was spawned.
C25_Witness ==
    /\ AutoCommitInRepo
    /\ iteration = 2
    /\ pc = "select"
    /\ child = "running"
    /\ lines_read >= 1

\* C26: the child of an iteration is released on every exit path: when start()
\* has returned, whatever the result, and when the engine is between
\* iterations, no child is alive or waiting to be reaped; and a step that
\* leaves the streaming loop while a stream of the child is still open leaves
\* the child killed and reaped.
C26_ChildReleased ==
    /\ []( pc \in { "done", "post_gate", "post_wait", "gate", "pre_wait", "spawn" }
           => child \in { "none", "reaped" } )
    /\ []( result.state \in { "Completed", "Failed" } => child = "reaped" )
    /\ [][ ( /\ pc \in { "stream", "select" }
             /\ pc' \notin { "stream", "select" }
             /\ ~( stdout_done' /\ stderr_done' ) )
           => child' = "reaped" ]_vars

\* A run returned Idle on a stop read in the streaming loop while the child was
\* still alive with a stream open.
C26_Witness ==
    /\ pc = "done"
    /\ result = Idle
    /\ stop_seen = "stream"
    /\ ~stdout_done
    /\ child = "reaped"
    /\ lines_read >= 1

\* The standard output received from the child of the current iteration so
\* far, as the engine passed it on: the contents of its Output events, each
\* followed by a line break.
RECURSIVE StdoutOf(_)
StdoutOf(evs) ==
    IF evs = << >> THEN << >>
    ELSE LET e == Head(evs)
             line == IF e.type = "Output" /\ ~e.is_stderr
                     THEN e.content \o << "\n" >> ELSE << >>
         IN  line \o StdoutOf(Tail(evs))

\* C29: with the OpenCode adapter the engine has declared the iteration
\* completed exactly when the completion signal occurs in the output received
\* so far, that is when the adapter's detect_completion holds of it, the signal
\* being carried by a "text" event or by any other.
C29_CompletionAgreesWithDetect ==
    cfg.cli_type = "OpenCode" =>
        ( completed <=> detect_completion(StdoutOf(events), completion_signal) )

\* C28: the message passed to git commit is one line (it holds no line
\* feed), holds at least one character and at most 72, whatever the agent
\* wrote (nothing, blank text, several lines, quoted or back-ticked text, a
\* line longer than 72 characters); it is a piece of what the agent wrote, or
\* "ralph: iteration N", which it is whenever the generation failed or the
\* agent wrote only white space.  (Blanks between quotes are kept: the message
\* then holds characters, all of them blank.)
C28_CommitMessageShape ==
    message.set =>
        /\ \A i \in 1..Len(message.text) : message.text[i] # "\n"
        /\ Len(message.text) >= 1
        /\ Len(message.text) <= MaxMessageChars
        /\ ~generated.ok => message.text = FallbackMessage(iteration)
        /\ ( generated.ok
             /\ \A i \in 1..Len(generated.text) : IsWhitespace(generated.text[i]) )
           => message.text = FallbackMessage(iteration)
        /\ \/ message.text = FallbackMessage(iteration)
           \/ /\ generated.ok
              /\ \E i \in 1..Len(generated.text) :
                     SubSeq(generated.text, i, i + Len(message.text) - 1) = message.text

\* The agent wrote a line longer than the limit inside backticks, after a
\* blank line; the message is the line's first 72 characters.
C28_Witness ==
    /\ message.set
    /\ generated.ok
    /\ Len(generated.text) > MaxMessageChars + 1
    /\ generated.text[1] = Backtick
    /\ message.text = Letters(MaxMessageChars)

\* C27: whenever the project has no entry in running_loops, no engine driver
\* task is executing for it, under every interleaving of start_loop, stop_loop
\* and engine termination, two start_loop calls for the project included.
C27_NoEntryNoDriver == ~get_loop_status => DriverTasks = { }

\* C30: once an OpenCode command is built, if the user had given the variable
\* a value, in the process environment or in the login-shell environment, the
\* child sees that value unchanged.
C30_UserValueKept ==
    ( cmd_env.built /\ ( process_env.set \/ shell_env.set ) ) =>
        ChildSees \in { v \in { process_env, shell_env } : v.set }

\* C31: for every prompt, the Codex argument vector is "exec", then
\* "--dangerously-bypass-approvals-and-sandbox", then "--skip-git-repo-check"
\* exactly when skip_git_repo_check is set, then the prompt; the read-only
\* vector is the same vector.
C31_CodexArgs ==
    adapter_result # NoCall =>
        LET args == adapter_result.args
            skip == adapter_call.options.skip_git_repo_check
        IN  /\ Len(args) = IF skip THEN 4 ELSE 3
            /\ args[1] = << "exec" >>
            /\ args[2] = << "--dangerously-bypass-approvals-and-sandbox" >>
            /\ skip => args[3] = << "--skip-git-repo-check" >>
            /\ args[Len(args)] = adapter_call.prompt

\* A read-only command built with the flag set, for a prompt that is itself
\* the text of the flag.
C31_Witness ==
    /\ adapter_result # NoCall
    /\ adapter_result.readonly
    /\ adapter_call.options.skip_git_repo_check
    /\ adapter_call.prompt = << "--skip-git-repo-check" >>
    /\ Len(adapter_result.args) = 4

\* The event type, a string, holds one of the three words.
TypeNamesAssistant(type) ==
    /\ type.kind = "string"
    /\ \E w \in { "message", "content", "assistant" } : Contains(type.str, << w >>)

\* What C32 says of a line that is not structured data: it is passed through
\* unchanged as plain text, is not marked assistant-originated, and does not
\* complete the loop.
PlainLinePassedThrough ==
    LET line == adapter_call.line
        p == adapter_result.parsed
    IN  ~line.json =>
            /\ p.content = line.raw
            /\ p.line_type = "Text"
            /\ ~p.is_assistant
            /\ ~adapter_result.completes

\* C32: with the Claude adapter, a line that is not structured data is passed
\* through as plain text, never marked assistant-originated, and cannot
\* complete the loop; a structured line is assistant-originated exactly when
\* its role is "assistant", or its role is absent and its type contains
\* "message", "content" or "assistant".
C32_AssistantIffRoleOrAbsentRole ==
    adapter_result # NoCall =>
        LET line == adapter_call.line
            p == adapter_result.parsed
        IN  /\ PlainLinePassedThrough
            /\ line.json =>
                 ( p.is_assistant <=>
                     \/ line.role = StringMember(<< "assistant" >>)
                     \/ line.role = Absent /\ TypeNamesAssistant(line.type) )

\* C32, amended: a structured line is assistant-originated exactly when its
\* role is the string "assistant", or it has no role that is a string (the
\* member is absent, or is a number, null, or another value) and its type
\* contains "message", "content" or "assistant".
C32_AssistantIffRoleOrNoStringRole ==
    adapter_result # NoCall =>
        LET line == adapter_call.line
            p == adapter_result.parsed
        IN  /\ PlainLinePassedThrough
            /\ line.json =>
                 ( p.is_assistant <=>
                     \/ line.role = StringMember(<< "assistant" >>)
                     \/ line.role.kind # "string" /\ TypeNamesAssistant(line.type) )

\* A structured line whose role is not a string and whose type names a
\* message is marked assistant-originated and, holding the sentinel, completes.
C32_Witness ==
    /\ adapter_result # NoCall
    /\ adapter_call.line.json
    /\ adapter_call.line.role = OtherMember
    /\ adapter_call.line.type = StringMember(<< "message", "_delta" >>)
    /\ adapter_result.parsed.is_assistant
    /\ adapter_result.completes

\* C33: a read failure on one stream of the child marks that stream, and it
\* alone, exhausted, and does nothing else; the lines of the other stream go
\* on being delivered, one Output each, in the order read; and the streaming
\* loop is left through exhaustion (no completion, no timeout, no stop) only
\* when both streams are exhausted.
C33_ReadFailureClosesStream ==
    [][ /\ StdoutEnd("error") =>
              /\ stdout_done' /\ stderr_done' = stderr_done
              /\ pc' = IF stderr_done THEN "wait" ELSE "stream"
              /\ UNCHANGED << events, child, result, completed, iteration >>
        /\ StderrEnd("error") =>
              /\ stderr_done' /\ stdout_done' = stdout_done
              /\ pc' = IF stdout_done THEN "wait" ELSE "stream"
              /\ UNCHANGED << events, child, result, completed, iteration >>
        /\ \A l \in ChildLines(cfg.cli_type) :
              ( /\ stdout_done
                /\ ReadStderr(l)
                /\ ~is_codex_git_repo_check_error(RawLine(l)) ) =>
                  /\ events' = Append(events, Output(iteration, RawLine(l),
                                                     cfg.cli_type # "Codex"))
                  /\ pc' = "stream"
        /\ ( stderr_done /\ StdoutLine ) =>
              /\ Len(events') = Len(events) + 1
              /\ SubSeq(events', 1, Len(events)) = events
              /\ Last(events') = Output(iteration, parsed'.content, FALSE)
        /\ ( pc \in { "stream", "select" } /\ pc' = "wait" /\ ~completed'
             /\ events' = events ) =>
              stdout_done' /\ stderr_done'
      ]_vars

\* Standard output is exhausted, standard error is not, and the line just
\* delivered was read from standard error; the loop goes round again.
C33_Witness ==
    /\ pc = "stream"
    /\ stdout_done
    /\ ~stderr_done
    /\ lines_read = MaxLines
    /\ \A i \in 2..Len(events) : events[i].type = "Output" /\ events[i].is_stderr
    /\ Len(events) = MaxLines + 1

\* C34: a resume request issued while the engine is in no paused wait (and no
\* pause is requested) has no lasting effect: when a later pause makes the
\* engine emit Paused and enter the paused wait, the engine leaves that wait by
\* a notification only if a resume or a stop was issued after it, never by the
\* notification the earlier resume left.
C34_EarlyResumeForgotten ==
    [][ /\ ( pc \notin Waits /\ pc' \in Waits ) => Last(events') = Paused(iteration)
        /\ ( pc \in Waits /\ pc' \notin Waits /\ pc' # "done" /\ ~stop_requested ) =>
              ~early_resume
      ]_vars

\* C35: a pause request accepted by pause_loop is never lost.  The request is
\* the pause flag, so the flag, once set, is cleared only by the engine ending
\* a paused wait that honoured it (Paused emitted after the request, then
\* Resumed): not by the first statements of the driver task, and not by the
\* end of a wait during which the request was made.
C35_PauseNeverLost ==
    [][ ( pause_requested /\ ~pause_requested' ) =>
            /\ pc \in Waits
            /\ ~fresh_pause
            /\ Last(events') = Resumed(iteration)
      ]_vars

\* C36: once the driver task of the project has finished, its final status
\* written, and every pause_loop, resume_loop and stop_loop call has returned,
\* the stored project status is neither Running nor Pausing.
C36_StatusSettled ==
    ( /\ task_pc = "ended"
      /\ \A c \in Cmds : command[c].pc \in { "idle", "returned" } ) =>
        stored_status \notin { "Running", "Pausing" }

\* C37: a start_loop call that returns an error leaves no entry for the
\* project in running_loops.  When no call is between its insertion and its
\* spawn, an entry exists only while a driver task has been spawned and has
\* not finished.
C37_EntryOnlyWhileDriven ==
    ( \A i \in Calls : call_pc[i] # "inserted" ) =>
        ( get_loop_status => DriverTasks # { } )

\* The terminal events the engine has emitted, and the least number of
\* Stopped events that stop_loop has emitted itself.
EngineTerminals ==
    { i \in 1..Len(events) :
        events[i].type \in { "Completed", "MaxIterationsReached", "Stopped" } }

CommandTerminals ==
    CASE stopped_by_command = "none" -> 0
      [] stopped_by_command = "one" -> 1
      [] stopped_by_command = "several" -> 2

\* C38: for one engine run driven through the control surface, at most one
\* terminal loop event (Completed, MaxIterationsReached or Stopped) is emitted
\* for the project, whatever the interleaving of stop_loop calls with the
\* engine's own emissions.
C38_OneTerminalEvent == Cardinality(EngineTerminals) + CommandTerminals <= 1

\* C39: start_loop never creates a Codex engine for a directory that is not a
\* repository with skip_git_repo_check = false: when the engine is created
\* for Codex, the directory is a repository (found so, or made so by git
\* init) or the engine gets the skip flag set.
C39_CodexRepoOrSkip ==
    ( start_loop_pc = "created" /\ task.cli = "Codex" ) =>
        ( dir_is_repo \/ skip_git_repo_check )

\* A Codex engine created outside a repository, none having been made.
C39_Witness ==
    /\ start_loop_pc = "created"
    /\ task.cli = "Codex"
    /\ ~dir_is_repo
    /\ skip_git_repo_check

====
